---- MODULE Spec2Model ----
(***************************************************************************)
(* Verification model of the PF2e game system (Gronex/foundry-pf2e).       *)
(*                                                                         *)
(* Part I   actor data preparation (ActorPF2e.prepareData and              *)
(*          _prepareCharacterData): specification Spec.                    *)
(* Part II  rule elements of embedded items (the Flames class feature and  *)
(*          the preparation pass that applies rule elements), checks and   *)
(*          degree-of-success adjustment: specification RuleSpec.          *)
(* Part III the predicate evaluator on its own: specification PredSpec.    *)
(* Part IV  aggregation of flat modifiers into a statistic: StatSpec.      *)
(* Part V   a character's crafting entry (CraftingEntry): CraftSpec.       *)
(* Part VI  updates and deletions of a character's items: ItemSpec.        *)
(* Part VII the roll options of items (getRollOptions): OptionSpec.        *)
(***************************************************************************)
EXTENDS Integers, Sequences, FiniteSets, TLC

VARIABLES
    actorType,   \* actorData.type: "character" or "npc"
    data,        \* actorData.data: the actor's data tree (source and derived fields)
    prevData,    \* the data tree as it was handed to the latest prepareData call
    passes,      \* prepareData calls since the source data last changed
    edits,       \* source updates made so far
    rActor,      \* Part II: the actor's source data (type, level, ranks, items in stored order)
    tree,        \* the derived-data tree of the current preparation pass
    phase,       \* "dirty" (source changed), "rules" (pass under way), "ready"
    cursor,      \* position of the pass in the rule elements to apply
    log,         \* the rule elements the pass has handled, in the order it handled them
    synthetics,  \* notes and degree-of-success adjustments registered by the pass
    warnings,    \* configuration warnings of the current preparation pass
    roll,        \* the check under way
    pPredicate,  \* Part III: the predicate handed to the predicate evaluator
    pOptions,    \* the roll-option set it is tested against
    pFacts,      \* the bag of numeric facts it is tested against
    pVerdicts,   \* the verdicts of the tests made on these inputs, in order
    modifiers,   \* Part IV: the flat modifiers contributed to a statistic, in order
    statTotal,   \* the statistic's aggregated modifier
    craftingEntry,          \* Part V: the crafting entry's fields other than its formulas
    preparedFormulas,       \* CraftingEntry.preparedFormulas
    actorPreparedFormulas,  \* system.crafting.entries.<selector>.actorPreparedFormulas
    pendingUpdates,         \* actor updates issued and not yet applied, oldest first
    notifications,          \* the warnings shown to the user, oldest first
    keptFormulas,           \* the formula objects the caller keeps and passes again, by uuid
    lastCall,               \* the latest operation called on the entry, with its arguments
    calls,                  \* operations called so far
    ownedItems,   \* Part VI: the actor's embedded items, by id
    hpValue,      \* the actor's current hit points (system.attributes.hp.value)
    deletion,     \* the progress of deleteDocuments
    itemEvents,   \* the callbacks and host calls of the latest item operation, in order
    lastUpdate,   \* the latest item update: what was submitted and what the host was given
    itemOps,      \* item operations started so far
    optItems,     \* Part VII: the items of the actor whose roll options are collected
    optCall,      \* the latest call of getRollOptions: item, prefix and result
    optCollected, \* the latest collection of the actor's roll options
    optCalls,     \* calls and collections so far
    tokenHp,        \* Part VIII: data.attributes.hp of the actor of each token
    controlled,     \* canvas.tokens.controlled
    inFlight,       \* the actor updates issued by applyDamage and not yet answered
    damagePromise,  \* the promise applyDamage returned: none, pending, fulfilled, rejected
    settled,        \* the tokens whose update was applied and those whose update was rejected
    lastDamage,     \* the latest applyDamage call: its value, its tokens, the hit points it found
    damageCalls,    \* applyDamage calls so far
    creation,       \* Part IX: the progress of createDocuments
    broadcast,      \* Part X: the creation or deletion the host announces to the clients
    clientCalls,    \* the calls each client has made in response, in order
    actorUpdates,   \* the actor updates submitted to the host in response, in order
    notifyOps       \* announcements so far

prepVars == <<actorType, data, prevData, passes, edits>>
ruleVars == <<rActor, tree, phase, cursor, log, synthetics, warnings, roll>>

\* What the actions of one part leave alone: the variables of the other parts.
predVars == <<pPredicate, pOptions, pFacts, pVerdicts>>
statVars == <<modifiers, statTotal>>
craftVars ==
    <<craftingEntry, preparedFormulas, actorPreparedFormulas, pendingUpdates, notifications,
      keptFormulas, lastCall, calls>>
itemVars == <<ownedItems, hpValue, deletion, itemEvents, lastUpdate, itemOps>>
optVars == <<optItems, optCall, optCollected, optCalls>>
createVars == <<creation>>
notifyVars == <<broadcast, clientCalls, actorUpdates, notifyOps>>
damageVars ==
    <<tokenHp, controlled, inFlight, damagePromise, settled, lastDamage, damageCalls>>
outsidePrep == <<ruleVars, predVars, statVars, craftVars, itemVars, optVars, damageVars,
      createVars, notifyVars>>
outsideRule == <<prepVars, predVars, statVars, craftVars, itemVars, optVars, damageVars,
      createVars, notifyVars>>
outsidePred == <<prepVars, ruleVars, statVars, craftVars, itemVars, optVars, damageVars,
      createVars, notifyVars>>
outsideStat == <<prepVars, ruleVars, predVars, craftVars, itemVars, optVars, damageVars,
      createVars, notifyVars>>
outsideCraft == <<prepVars, ruleVars, predVars, statVars, itemVars, optVars, damageVars,
      createVars, notifyVars>>
outsideItem == <<prepVars, ruleVars, predVars, statVars, craftVars, optVars, damageVars,
      createVars, notifyVars>>
outsideOpt == <<prepVars, ruleVars, predVars, statVars, craftVars, itemVars, damageVars,
      createVars, notifyVars>>
\* What the creation of items leaves alone: it acts on the items of Part VI.
outsideCreate ==
    <<prepVars, ruleVars, predVars, statVars, craftVars, optVars, damageVars, notifyVars>>
outsideNotify ==
    <<prepVars, ruleVars, predVars, statVars, craftVars, itemVars, optVars, damageVars,
      createVars>>
outsideDamage == <<prepVars, ruleVars, predVars, statVars, craftVars, itemVars, optVars,
      createVars, notifyVars>>

(***************************************************************************)
(* Bounds of the model.                                                    *)
(***************************************************************************)
MaxEdits == 2
MaxPasses == 2
MaxItems == 4
MaxTests == 2
MaxModifiers == 3
MaxCalls == 2
MaxKeptCalls == 3
MaxItemOps == 2
MaxOptionCalls == 2
MaxDamageCalls == 1
MaxNotifyOps == 1

AbilityNames == {"dex", "int", "wis"}
SaveNames == {"reflex", "will"}
SkillNames == {"acr", "arc"}
MartialNames == {"simple"}
TraitKeys == {"dr", "languages"}

Scores == {3, 9, 10, 11, 12, 18}
Ranks == 0 .. 4
ItemBonuses == {0, 1}
XpValues == {0, 250, 994, 995, 2000}
\* details.level.value arrives as a number or, from a sheet form, as a decimal
\* string; n is the number the text denotes.
LevelInputs ==
    { [kind |-> "num", n |-> 1], [kind |-> "num", n |-> 5],
      [kind |-> "str", n |-> 5], [kind |-> "str", n |-> 13] }
\* attributes.ac.check: absent, zero or a penalty.
AcChecks ==
    { [defined |-> FALSE, n |-> 0], [defined |-> TRUE, n |-> 0], [defined |-> TRUE, n |-> -2] }
SpellcastingValues == {"", "wis"}

Min(a, b) == IF a <= b THEN a ELSE b
Max(a, b) == IF a >= b THEN a ELSE b

RECURSIVE SumTerms(_)
\* Sum of the numbers a breakdown lists.
SumTerms(terms) ==
    IF terms = <<>> THEN 0 ELSE Head(terms).n + SumTerms(Tail(terms))

(***************************************************************************)
(* Part I: ActorPF2e.prepareData                                           *)
(***************************************************************************)

\* One addend of a breakdown string, "label(n)"; the addends are joined by " + ".
Term(label, n) == [label |-> label, n |-> n]

\* parseInt(data.details.level.value)
parseInt(v) == [kind |-> "num", n |-> v.n]

\* Mutant: the quotient is truncated toward zero instead of floored.
abilityMod_truncating(value) ==
    IF value >= 10 THEN (value - 10) \div 2 ELSE -((10 - value) \div 2)

\* abl.mod = Math.floor((abl.value - 10) / 2)
abilityMod(value) == (value - 10) \div 2

\* Mutant: the rank-0 case is not singled out.
proficiency_untrainedAddsLevel(rank, level) == (rank * 2) + level

\* rank ? (rank * 2) + data.details.level.value : 0
proficiency(rank, level) == IF rank # 0 THEN (rank * 2) + level ELSE 0

\* Math.min(Math.round(xp.value * 100 / 1000), 99.5), in tenths of a percent.
xpPct(xp) == Min(10 * ((xp + 5) \div 10), 995)

\* Mutant: the save value is added to the value of the previous pass.
saveValue_accumulating(save, mod, prof) == save.value + mod + prof + save.item

\* save.value = data.abilities[save.ability].mod + proficiency + save.item
saveValue(save, mod, prof) == mod + prof + save.item

\* The breakdown of a save, of perception and of an unarmored skill.
statBreakdown(stat, mod, prof) ==
    << Term(stat.ability \o " modifier", mod), Term("proficiency", prof),
       Term("item bonus", stat.item) >>

\* data.attributes.ac.check || 0
armorCheckPenalty(d) ==
    IF d.attributes.ac.check.defined THEN d.attributes.ac.check.n ELSE 0

\* Mutant: the armor check penalty is listed in the breakdown but not added.
skillValue_noArmorTerm(skl, mod, prof, acp) == mod + prof + skl.item

\* skl.value of the two branches of `if (skl.armor)`
skillValue(skl, mod, prof, acp) ==
    IF skl.armor THEN mod + prof + skl.item + acp ELSE mod + prof + skl.item

\* skl.breakdown of the two branches of `if (skl.armor)`
skillBreakdown(skl, mod, prof, acp) ==
    IF skl.armor
    THEN statBreakdown(skl, mod, prof) \o << Term("armor check penalty", acp) >>
    ELSE statBreakdown(skl, mod, prof)

_prepareCharacterData(d) ==
    LET level == parseInt(d.details.level.value)
        lv == level.n
        mod(a) == d.abilities[a].mod
        saves ==
            [s \in DOMAIN d.saves |->
                LET save == d.saves[s]
                    p == proficiency(save.rank, lv)
                IN  [save EXCEPT
                        !.value = saveValue(save, mod(save.ability), p),
                        !.breakdown = statBreakdown(save, mod(save.ability), p)]]
        martial ==
            [m \in DOMAIN d.martial |->
                LET p == proficiency(d.martial[m].rank, lv)
                IN  [d.martial[m] EXCEPT
                        !.value = p,
                        !.breakdown = << Term("proficiency", p) >>]]
        perc == d.attributes.perception
        percProf == proficiency(perc.rank, lv)
        perception ==
            [perc EXCEPT
                !.value = mod(perc.ability) + percProf + perc.item,
                !.breakdown = statBreakdown(perc, mod(perc.ability), percProf)]
        sdc == d.attributes.spelldc
        spellProficiency == proficiency(sdc.rank, lv)
        spellAbl ==
            IF d.attributes.spellcasting.value # ""
            THEN d.attributes.spellcasting.value ELSE "int"
        spellValue == mod(spellAbl) + spellProficiency + sdc.item
        spelldc ==
            [sdc EXCEPT
                !.value = spellValue,
                !.dc = spellValue + 10,
                !.breakdown =
                    << Term("", 10), Term(spellAbl \o " modifier", mod(spellAbl)),
                       Term("proficiency", spellProficiency),
                       Term("item bonus", sdc.item) >>]
        acp == armorCheckPenalty(d)
        skills ==
            [k \in DOMAIN d.skills |->
                LET skl == d.skills[k]
                    p == proficiency(skl.rank, lv)
                IN  [skl EXCEPT
                        !.mod = mod(skl.ability),
                        !.value = skillValue(skl, mod(skl.ability), p, acp),
                        !.breakdown = skillBreakdown(skl, mod(skl.ability), p, acp)]]
    IN  [d EXCEPT
            !.details.level.value = level,
            !.details.xp.max = 1000,
            !.details.xp.pct = xpPct(d.details.xp.value),
            !.saves = saves,
            !.martial = martial,
            !.attributes.perception = perception,
            !.attributes.spelldc = spelldc,
            !.skills = skills]

\* _prepareNPCData has an empty body.
_prepareNPCData(d) == d

prepareData(type, d) ==
    LET d0 ==
            [d EXCEPT !.abilities =
                [a \in DOMAIN d.abilities |->
                    [d.abilities[a] EXCEPT !.mod = abilityMod(d.abilities[a].value)]]]
        d1 ==
            IF type = "character" THEN _prepareCharacterData(d0)
            ELSE IF type = "npc" THEN _prepareNPCData(d0)
            ELSE d0
    IN  \* a trait still stored in the old format is converted to an array, once
        [d1 EXCEPT !.traits =
            [t \in DOMAIN d1.traits |->
                IF d1.traits[t].isArray THEN d1.traits[t] ELSE [isArray |-> TRUE]]]

\* The data tree of a newly created actor: source fields at their defaults,
\* derived fields not computed yet.
NewActorData ==
    [ abilities |-> [a \in AbilityNames |-> [value |-> 10, mod |-> 0]],
      details |->
        [ level |-> [value |-> [kind |-> "str", n |-> 1]],
          xp |-> [value |-> 0, max |-> 0, pct |-> 0] ],
      saves |->
        [s \in SaveNames |->
            [ rank |-> 0, ability |-> IF s = "reflex" THEN "dex" ELSE "wis",
              item |-> 0, value |-> 0, breakdown |-> <<>> ]],
      martial |-> [m \in MartialNames |-> [rank |-> 0, value |-> 0, breakdown |-> <<>>]],
      attributes |->
        [ perception |->
            [rank |-> 0, ability |-> "wis", item |-> 0, value |-> 0, breakdown |-> <<>>],
          spelldc |-> [rank |-> 0, item |-> 0, value |-> 0, dc |-> 0, breakdown |-> <<>>],
          spellcasting |-> [value |-> ""],
          ac |-> [check |-> [defined |-> FALSE, n |-> 0]] ],
      skills |->
        [k \in SkillNames |->
            [ rank |-> 0, ability |-> IF k = "acr" THEN "dex" ELSE "int",
              item |-> 0, armor |-> (k = "acr"), mod |-> 0, value |-> 0,
              breakdown |-> <<>> ]],
      traits |-> [t \in TraitKeys |-> [isArray |-> (t = "dr")]] ]

\* The data trees an update of one source field of d can produce.
SourcePatches(d) ==
    {[d EXCEPT !.abilities[a].value = v] : a \in AbilityNames, v \in Scores}
    \cup {[d EXCEPT !.details.level.value = l] : l \in LevelInputs}
    \cup {[d EXCEPT !.details.xp.value = x] : x \in XpValues}
    \cup {[d EXCEPT !.saves[s].rank = r] : s \in SaveNames, r \in Ranks}
    \cup {[d EXCEPT !.saves[s].item = i] : s \in SaveNames, i \in ItemBonuses}
    \cup {[d EXCEPT !.martial[m].rank = r] : m \in MartialNames, r \in Ranks}
    \cup {[d EXCEPT !.attributes.perception.rank = r] : r \in Ranks}
    \cup {[d EXCEPT !.attributes.perception.item = i] : i \in ItemBonuses}
    \cup {[d EXCEPT !.attributes.spelldc.rank = r] : r \in Ranks}
    \cup {[d EXCEPT !.attributes.spelldc.item = i] : i \in ItemBonuses}
    \cup {[d EXCEPT !.attributes.spellcasting.value = v] : v \in SpellcastingValues}
    \cup {[d EXCEPT !.attributes.ac.check = c] : c \in AcChecks}
    \cup {[d EXCEPT !.skills[k].rank = r] : k \in SkillNames, r \in Ranks}
    \cup {[d EXCEPT !.skills[k].item = i] : k \in SkillNames, i \in ItemBonuses}

PrepInit ==
    /\ actorType \in {"character", "npc"}
    /\ data = NewActorData
    /\ prevData = NewActorData
    /\ passes = 0
    /\ edits = 0

\* The host prepares the actor's data again (a render, a reload) with the source
\* data unchanged.
PrepareData ==
    /\ passes < MaxPasses
    /\ prevData' = data
    /\ data' = prepareData(actorType, data)
    /\ passes' = passes + 1
    /\ UNCHANGED <<actorType, edits, outsidePrep>>

\* A source field is updated; the host merges the change and prepares the data.
UpdateSource ==
    /\ edits < MaxEdits
    /\ \E patched \in SourcePatches(data) :
        /\ patched # data
        /\ prevData' = patched
        /\ data' = prepareData(actorType, patched)
    /\ passes' = 1
    /\ edits' = edits + 1
    /\ UNCHANGED <<actorType, outsidePrep>>

(***************************************************************************)
(* Part II: rule elements                                                  *)
(*                                                                         *)
(* The items' rule data (flames.json), ItemPF2e.getRollOptions and         *)
(* ItemPF2e.prepareRuleElements are modelled from their source.  The rule  *)
(* element classes, the predicate test, the preparation pass over the      *)
(* embedded items and the check with its degree of success are modelled    *)
(* from the specification (sections 4.1 to 4.6).                           *)
(***************************************************************************)

\* Degrees of success, worst to best.
DegreeNames == << "criticalFailure", "failure", "success", "criticalSuccess" >>
Degrees == 1 .. Len(DegreeNames)

\* Predicate atoms: a tag test, a comparison of a numeric fact, a boolean group.
Has(tag) == [op |-> "has", tag |-> tag]
Gte(fact, n) == [op |-> "gte", fact |-> fact, n |-> n]

\* flames.json: the predicate of rules[2], rules[3] and rules[4]
FlamesPredicate ==
    << Has("class:oracle"), Gte("self:level", 13), Has("feature:lightning-reflexes") >>

\* flames.json system.rules, with the three places the checks vary.
flamesRules(acrMode, masterPredicate, successAdjustment) ==
    << [ key |-> "ActiveEffectLike", mode |-> "upgrade",
         path |-> "system.saves.reflex.rank",
         predicate |-> << Has("class:oracle") >>, value |-> 2 ],
       [ key |-> "ActiveEffectLike", mode |-> acrMode,
         path |-> "system.skills.acr.rank", predicate |-> <<>>, value |-> 1 ],
       [ key |-> "ActiveEffectLike", mode |-> "upgrade",
         path |-> "system.saves.reflex.rank",
         predicate |-> masterPredicate, value |-> 3 ],
       [ key |-> "Note", outcome |-> << "success" >>,
         predicate |-> FlamesPredicate, selector |-> "reflex",
         text |-> "When you roll a success on a Reflex save, you get a critical success instead.",
         title |-> "{item|name}" ],
       [ key |-> "AdjustDegreeOfSuccess",
         adjustment |-> [success |-> successAdjustment],
         predicate |-> FlamesPredicate, selector |-> "reflex", type |-> "save" ] >>

\* Mutant: rules[2] lost its feature atom.
FlamesRules_masterWithoutFeatureAtom ==
    flamesRules("upgrade", << Has("class:oracle"), Gte("self:level", 13) >>,
                "one-degree-better")

\* Mutant: rules[1] overrides the skill rank instead of upgrading it.
FlamesRules_acrOverride == flamesRules("override", FlamesPredicate, "one-degree-better")

\* Mutant: rules[2] is gated by the class alone.
FlamesRules_masterUngated ==
    flamesRules("upgrade", << Has("class:oracle") >>, "one-degree-better")

\* Mutant: rules[4] turns a success into a failure.
FlamesRules_successWorse == flamesRules("upgrade", FlamesPredicate, "one-degree-worse")

\* flames.json system.rules
FlamesRules == flamesRules("upgrade", FlamesPredicate, "one-degree-better")

\* The items that can be created on the actor.  slug "" stands for a null slug.
ItemCatalogue ==
    [ oracle |->
        [ id |-> "oracle", name |-> "Oracle", type |-> "class", slug |-> "oracle",
          featType |-> "", traits |-> <<>>, level |-> [present |-> FALSE, value |-> 0],
          rules |-> <<>> ],
      flames |->
        [ id |-> "GTSvbFb36InvuH0w", name |-> "Flames", type |-> "feat", slug |-> "",
          featType |-> "classfeature", traits |-> << "oracle" >>,
          level |-> [present |-> TRUE, value |-> 1], rules |-> FlamesRules ],
      lightning |->
        [ id |-> "lightning", name |-> "Lightning Reflexes", type |-> "feat",
          slug |-> "lightning-reflexes", featType |-> "classfeature",
          traits |-> << "oracle" >>, level |-> [present |-> TRUE, value |-> 13],
          rules |-> <<>> ],
      boost |->
        [ id |-> "boost", name |-> "Level Boost", type |-> "effect", slug |-> "level-boost",
          featType |-> "", traits |-> <<>>, level |-> [present |-> TRUE, value |-> 1],
          rules |->
            << [ key |-> "ActiveEffectLike", mode |-> "upgrade",
                 path |-> "system.details.level.value", predicate |-> <<>>,
                 value |-> 13 ] >> ],
      extremes |->
        [ id |-> "extremes", name |-> "Fated Extremes", type |-> "effect",
          slug |-> "fated-extremes", featType |-> "", traits |-> <<>>,
          level |-> [present |-> TRUE, value |-> 1],
          rules |->
            << [ key |-> "FatedOutcome", predicate |-> <<>>, selector |-> "reflex" ],
               [ key |-> "ActiveEffectLike", mode |-> "upgrade",
                 path |-> "system.saves.reflex.rnk", predicate |-> <<>>, value |-> 4 ],
               [ key |-> "AdjustDegreeOfSuccess",
                 adjustment |->
                    [ criticalSuccess |-> "one-degree-better",
                      criticalFailure |-> "one-degree-worse",
                      failure |-> "one-degree-worse" ],
                 predicate |-> <<>>, selector |-> "reflex", type |-> "save" ] >> ] ]

ItemKeys == DOMAIN ItemCatalogue

\* sluggify(name), for the names of the catalogue
sluggify(name) ==
    CASE name = "Flames" -> "flames"
      [] name = "Lightning Reflexes" -> "lightning-reflexes"
      [] name = "Oracle" -> "oracle"
      [] name = "Level Boost" -> "level-boost"
      [] name = "Fated Extremes" -> "fated-extremes"
      [] OTHER -> name

\* feat items that are class features are "features"
isFeature(item) == item.type = "feat" /\ item.featType = "classfeature"

\* Mutant: the options say nothing of the item's traits.
getRollOptions_withoutTraits(item, prefix) ==
    LET slug == IF item.slug # "" THEN item.slug ELSE item.name
        delimitedPrefix == IF prefix # "" THEN prefix \o ":" ELSE ""
    IN  << delimitedPrefix \o "id:" \o item.id, delimitedPrefix \o slug >>
        \o (IF item.level.present
            THEN << delimitedPrefix \o "level:" \o ToString(item.level.value) >> ELSE <<>>)

\* ItemPF2e.getRollOptions(prefix)
getRollOptions(item, prefix) ==
    LET slug == IF item.slug # "" THEN item.slug ELSE sluggify(item.name)
        delimitedPrefix == IF prefix # "" THEN prefix \o ":" ELSE ""
        traitOptions == [i \in 1 .. Len(item.traits) |-> "trait:" \o item.traits[i]]
        options ==
            << delimitedPrefix \o "id:" \o item.id, delimitedPrefix \o slug >>
            \o [i \in 1 .. Len(traitOptions) |-> delimitedPrefix \o traitOptions[i]]
        withLevel ==
            IF item.level.present
            THEN Append(options, delimitedPrefix \o "level:" \o ToString(item.level.value))
            ELSE options
        withType ==
            IF prefix \in {"item", ""}
            THEN << delimitedPrefix \o "type:"
                    \o (IF isFeature(item) THEN "feature" ELSE item.type) >> \o withLevel
            ELSE withLevel
    IN  IF item.type = "consumable"
        THEN Append(withType, delimitedPrefix \o "type:" \o item.consumableType)
        ELSE withType

Range(seq) == {seq[i] : i \in 1 .. Len(seq)}

\* The paths of the derived-data tree the rules of the catalogue address.
TreePaths ==
    {"system.details.level.value", "system.saves.reflex.rank", "system.skills.acr.rank"}

\* Phases 1 to 3 of a preparation pass: the tree is reset from the source data.
BaseTree(actor) ==
    [p \in TreePaths |->
        CASE p = "system.details.level.value" -> actor.level
          [] p = "system.saves.reflex.rank" -> actor.reflexRank
          [] p = "system.skills.acr.rank" -> actor.acrRank]

\* The roll options of an actor's current state (section 4.1): self:level:<n> and
\* the options of every embedded item, a class feature under the prefix "feature".
RollOptions(items, t) ==
    {"self:level:" \o ToString(t["system.details.level.value"])}
    \cup UNION { Range(getRollOptions(ItemCatalogue[items[i]],
                        IF isFeature(ItemCatalogue[items[i]]) THEN "feature"
                        ELSE ItemCatalogue[items[i]].type))
                 : i \in 1 .. Len(items) }

\* The numeric facts predicates compare (section 4.2).
Facts(t) == [f \in {"self:level"} |-> t["system.details.level.value"]]

RECURSIVE testAtom(_, _, _)
\* Mutant: a fact that is not in the bag counts as 0.
testAtom_unknownFactIsZero(atom, options, facts) ==
    LET n == IF atom.fact \in DOMAIN facts THEN facts[atom.fact] ELSE 0
    IN  CASE atom.op = "has" -> atom.tag \in options
          [] atom.op = "nothas" -> atom.tag \notin options
          [] atom.op = "gte" -> n >= atom.n
          [] atom.op = "gt" -> n > atom.n
          [] atom.op = "lte" -> n <= atom.n
          [] atom.op = "lt" -> n < atom.n
          [] atom.op = "eq" -> n = atom.n
          [] atom.op = "and" ->
                \A i \in 1 .. Len(atom.args) : testAtom(atom.args[i], options, facts)
          [] atom.op = "or" ->
                \E i \in 1 .. Len(atom.args) : testAtom(atom.args[i], options, facts)
          [] atom.op = "not" ->
                ~(\A i \in 1 .. Len(atom.args) : testAtom(atom.args[i], options, facts))
          [] OTHER -> FALSE

\* One atom of a predicate; a comparison of an unknown fact is false.
testAtom(atom, options, facts) ==
    LET known == atom.fact \in DOMAIN facts
    IN  CASE atom.op = "has" -> atom.tag \in options
          [] atom.op = "nothas" -> atom.tag \notin options
          [] atom.op = "gte" -> known /\ facts[atom.fact] >= atom.n
          [] atom.op = "gt" -> known /\ facts[atom.fact] > atom.n
          [] atom.op = "lte" -> known /\ facts[atom.fact] <= atom.n
          [] atom.op = "lt" -> known /\ facts[atom.fact] < atom.n
          [] atom.op = "eq" -> known /\ facts[atom.fact] = atom.n
          [] atom.op = "and" ->
                \A i \in 1 .. Len(atom.args) : testAtom(atom.args[i], options, facts)
          [] atom.op = "or" ->
                \E i \in 1 .. Len(atom.args) : testAtom(atom.args[i], options, facts)
          [] atom.op = "not" ->
                ~(\A i \in 1 .. Len(atom.args) : testAtom(atom.args[i], options, facts))
          [] OTHER -> FALSE

\* A predicate: the conjunction of its atoms.
testPredicate(predicate, options, facts) ==
    \A i \in 1 .. Len(predicate) : testAtom(predicate[i], options, facts)

\* The keys of the rule element registry this model implements.
RuleElementKeys == {"ActiveEffectLike", "Note", "AdjustDegreeOfSuccess"}

\* actor.canHostRuleElements
canHostRuleElements(actor) == actor.type \in {"character", "npc"}

RECURSIVE instantiate(_, _)
\* RuleElements.fromOwnedItem: one rule element per rule of the item's source, in
\* the order of the source array; a rule with an unknown key gets none.
instantiate(rules, from) ==
    IF from > Len(rules) THEN <<>>
    ELSE (IF rules[from].key \in RuleElementKeys
          THEN << [source |-> from, data |-> rules[from]] >> ELSE <<>>)
         \o instantiate(rules, from + 1)

fromOwnedItem(item) == instantiate(item.rules, 1)

\* Mutant: the rule elements come out in reverse order.
prepareRuleElements_reversed(actor, item) ==
    LET rules == fromOwnedItem(item)
    IN  IF canHostRuleElements(actor)
        THEN [i \in 1 .. Len(rules) |-> rules[Len(rules) + 1 - i]] ELSE <<>>

\* Mutant: an item one of whose rules has an unknown key gets no rule elements.
prepareRuleElements_abortsOnUnknownKey(actor, item) ==
    IF canHostRuleElements(actor)
       /\ \A r \in 1 .. Len(item.rules) : item.rules[r].key \in RuleElementKeys
    THEN fromOwnedItem(item) ELSE <<>>

\* ItemPF2e.prepareRuleElements
prepareRuleElements(actor, item) ==
    IF canHostRuleElements(actor) THEN fromOwnedItem(item) ELSE <<>>

RECURSIVE passOrder(_, _)
\* The rule elements of a pass in the order they are applied: item by item in the
\* actor's stored order, rule by rule in the order of item.rules.
passOrder(actor, from) ==
    IF from > Len(actor.items) THEN <<>>
    ELSE LET rules == prepareRuleElements(actor, ItemCatalogue[actor.items[from]])
         IN  [r \in 1 .. Len(rules) |-> [item |-> from, rule |-> rules[r]]]
             \o passOrder(actor, from + 1)

\* ActiveEffectLike: the value a mode leaves in a field.
applyMode(mode, current, value) ==
    CASE mode = "upgrade" -> Max(current, value)
      [] mode = "override" -> value
      [] mode = "add" -> current + value
      [] OTHER -> current

\* Degree of success of a total against a DC (section 4.6).
degreeOfSuccess(total, dc) ==
    IF total >= dc + 10 THEN 4
    ELSE IF total >= dc THEN 3
    ELSE IF total <= dc - 10 THEN 1
    ELSE 2

\* One step better or worse, clamped to critical failure .. critical success.
adjustDegree(degree, amount) ==
    CASE amount = "one-degree-better" -> Min(degree + 1, Len(DegreeNames))
      [] amount = "one-degree-worse" -> Max(degree - 1, 1)
      [] OTHER -> degree

\* Does a registered adjustment say something about this outcome?
adjustmentFor(adj, degree) ==
    IF "all" \in DOMAIN adj.adjustment THEN adj.adjustment["all"]
    ELSE IF DegreeNames[degree] \in DOMAIN adj.adjustment
         THEN adj.adjustment[DegreeNames[degree]]
    ELSE "none"

\* The registered adjustments that apply to a check of the selector at this outcome.
applicableAdjustments(adjustments, selector, degree) ==
    SelectSeq(adjustments,
              LAMBDA adj : adj.selector = selector /\ adjustmentFor(adj, degree) # "none")

NoSynthetics == [notes |-> <<>>, adjustments |-> <<>>]

RECURSIVE unknownKeys(_, _, _)
\* The warnings of loading an item's rules: one for every rule whose key is not in
\* the registry.
unknownKeys(itemKey, rules, from) ==
    IF from > Len(rules) THEN <<>>
    ELSE (IF rules[from].key \notin RuleElementKeys
          THEN << [item |-> itemKey, rule |-> from, reason |-> "unknown-key"] >>
          ELSE <<>>)
         \o unknownKeys(itemKey, rules, from + 1)

RECURSIVE loadWarnings(_, _)
\* The warnings of loading the rules of the actor's items, in the stored order.
loadWarnings(actor, from) ==
    IF from > Len(actor.items) \/ ~canHostRuleElements(actor) THEN <<>>
    ELSE unknownKeys(actor.items[from], ItemCatalogue[actor.items[from]].rules, 1)
         \o loadWarnings(actor, from + 1)

\* Mutant: a rule element acts whatever its predicate says.
applyRuleElement_ignoresPredicate(entry, items, st) ==
    LET spec == entry.rule.data
        holds == testPredicate(spec.predicate, RollOptions(items, st.tree), Facts(st.tree))
        validPath == spec.key # "ActiveEffectLike" \/ spec.path \in DOMAIN st.tree
        written ==
            IF spec.key = "ActiveEffectLike" /\ validPath
            THEN [p \in DOMAIN st.tree |->
                    IF p = spec.path THEN applyMode(spec.mode, st.tree[p], spec.value)
                    ELSE st.tree[p]]
            ELSE st.tree
    IN  [ tree |-> written,
          synthetics |->
            IF spec.key = "Note"
            THEN [ notes |->
                     Append(st.synthetics.notes,
                            [ selector |-> spec.selector, outcome |-> spec.outcome,
                              text |-> spec.text ]),
                   adjustments |-> st.synthetics.adjustments ]
            ELSE IF spec.key = "AdjustDegreeOfSuccess"
            THEN [ notes |-> st.synthetics.notes,
                   adjustments |->
                     Append(st.synthetics.adjustments,
                            [ selector |-> spec.selector, adjustment |-> spec.adjustment,
                              item |-> items[entry.item] ]) ]
            ELSE st.synthetics,
          warnings |->
            IF ~validPath
            THEN Append(st.warnings,
                        [ item |-> items[entry.item], rule |-> entry.rule.source,
                          reason |-> "invalid-path" ])
            ELSE st.warnings,
          log |->
            Append(st.log, [ item |-> entry.item, rule |-> entry.rule.source,
                             key |-> spec.key, passed |-> holds,
                             before |-> st.tree, after |-> written ]) ]

\* One rule element of a pass handled in the state st of the pass (tree,
\* synthetics, warnings, log).  Its predicate is tested against the roll options
\* and facts of the tree as it is now; if it fails the rule element is skipped; if
\* it passes an ActiveEffectLike writes the field at its path (a path that is not
\* in the tree is reported and nothing is written), a Note and an
\* AdjustDegreeOfSuccess register themselves for the checks of their selector.
applyRuleElement(entry, items, st) ==
    LET spec == entry.rule.data
        holds == testPredicate(spec.predicate, RollOptions(items, st.tree), Facts(st.tree))
        validPath == spec.key # "ActiveEffectLike" \/ spec.path \in DOMAIN st.tree
        written ==
            IF holds /\ spec.key = "ActiveEffectLike" /\ validPath
            THEN [p \in DOMAIN st.tree |->
                    IF p = spec.path THEN applyMode(spec.mode, st.tree[p], spec.value)
                    ELSE st.tree[p]]
            ELSE st.tree
    IN  [ tree |-> written,
          synthetics |->
            IF holds /\ spec.key = "Note"
            THEN [ notes |->
                     Append(st.synthetics.notes,
                            [ selector |-> spec.selector, outcome |-> spec.outcome,
                              text |-> spec.text ]),
                   adjustments |-> st.synthetics.adjustments ]
            ELSE IF holds /\ spec.key = "AdjustDegreeOfSuccess"
            THEN [ notes |-> st.synthetics.notes,
                   adjustments |->
                     Append(st.synthetics.adjustments,
                            [ selector |-> spec.selector, adjustment |-> spec.adjustment,
                              item |-> items[entry.item] ]) ]
            ELSE st.synthetics,
          warnings |->
            IF holds /\ ~validPath
            THEN Append(st.warnings,
                        [ item |-> items[entry.item], rule |-> entry.rule.source,
                          reason |-> "invalid-path" ])
            ELSE st.warnings,
          log |->
            Append(st.log, [ item |-> entry.item, rule |-> entry.rule.source,
                             key |-> spec.key, passed |-> holds,
                             before |-> st.tree, after |-> written ]) ]

RECURSIVE runPass(_, _, _, _)
\* The first n rule elements of entries handled one after the other from the
\* state start.
runPass(entries, n, items, start) ==
    IF n = 0 THEN start
    ELSE applyRuleElement(entries[n], items, runPass(entries, n - 1, items, start))

\* The state of a pass before its first rule element.
passStart(actor) ==
    [ tree |-> BaseTree(actor), synthetics |-> NoSynthetics,
      warnings |-> loadWarnings(actor, 1), log |-> <<>> ]

(***************************************************************************)
(* Part II: the actor, its preparation pass and its checks                 *)
(***************************************************************************)

Levels == {5, 12, 13}
ReflexRanks == {1, 4}
AcrRanks == {0, 2}
CheckSelectors == {"reflex", "will"}
CheckDCs == {15}
CheckTotals == {5, 14, 15, 24, 25}

\* No check under way.  raw and outcome are 0 until the DC has been compared.
NoRoll ==
    [ pc |-> "none", selector |-> "", total |-> 0, dc |-> 0, raw |-> 0, outcome |-> 0,
      adjusted |-> 0, applied |-> "none", notes |-> <<>> ]

RuleInit ==
    /\ rActor \in
        [ type : {"character", "loot"}, level : {5}, reflexRank : ReflexRanks,
          acrRank : AcrRanks, items : {<<>>} ]
    /\ tree = BaseTree(rActor)
    /\ phase = "dirty"
    /\ cursor = 0
    /\ log = <<>>
    /\ synthetics = NoSynthetics
    /\ warnings = <<>>
    /\ roll = NoRoll

CheckAtRest == roll.pc \in {"none", "surfaced"}

\* An item is created on the actor; it is stored after the items already there.
CreateItem ==
    /\ phase = "ready"
    /\ CheckAtRest
    /\ Len(rActor.items) < MaxItems
    /\ \E k \in ItemKeys :
        /\ k \notin Range(rActor.items)
        /\ rActor' = [rActor EXCEPT !.items = Append(@, k)]
    /\ phase' = "dirty"
    /\ roll' = NoRoll
    /\ UNCHANGED <<tree, cursor, log, synthetics, warnings, outsideRule>>

\* The actor's level is changed in its source data.
UpdateLevel ==
    /\ phase = "ready"
    /\ CheckAtRest
    /\ \E l \in Levels \ {rActor.level} : rActor' = [rActor EXCEPT !.level = l]
    /\ phase' = "dirty"
    /\ roll' = NoRoll
    /\ UNCHANGED <<tree, cursor, log, synthetics, warnings, outsideRule>>

\* A preparation pass starts (after a change of the source data, or again with the
\* source data unchanged): the derived tree is reset from the source data and
\* nothing of the previous pass is kept.
BeginPrepare ==
    /\ phase \in {"dirty", "ready"}
    /\ CheckAtRest
    /\ tree' = passStart(rActor).tree
    /\ synthetics' = passStart(rActor).synthetics
    /\ warnings' = passStart(rActor).warnings
    /\ log' = passStart(rActor).log
    /\ cursor' = 1
    /\ phase' = "rules"
    /\ roll' = NoRoll
    /\ UNCHANGED <<rActor, outsideRule>>

\* The next rule element of the pass is handled.
ApplyRule ==
    /\ phase = "rules"
    /\ cursor <= Len(passOrder(rActor, 1))
    /\ LET st == applyRuleElement(passOrder(rActor, 1)[cursor], rActor.items,
                                  [ tree |-> tree, synthetics |-> synthetics,
                                    warnings |-> warnings, log |-> log ])
       IN  /\ tree' = st.tree
           /\ synthetics' = st.synthetics
           /\ warnings' = st.warnings
           /\ log' = st.log
    /\ cursor' = cursor + 1
    /\ UNCHANGED <<rActor, phase, roll, outsideRule>>

\* Every rule element of the pass has been handled.
FinishPrepare ==
    /\ phase = "rules"
    /\ cursor > Len(passOrder(rActor, 1))
    /\ phase' = "ready"
    /\ UNCHANGED <<rActor, tree, cursor, log, synthetics, warnings, roll, outsideRule>>

\* A check of a statistic is rolled against a DC.
RollCheck ==
    /\ phase = "ready"
    /\ CheckAtRest
    /\ \E s \in CheckSelectors, t \in CheckTotals, d \in CheckDCs :
        roll' = [NoRoll EXCEPT !.pc = "rolled", !.selector = s, !.total = t, !.dc = d]
    /\ UNCHANGED <<rActor, tree, phase, cursor, log, synthetics, warnings, outsideRule>>

\* The total is compared with the DC.
CompareDC ==
    /\ roll.pc = "rolled"
    /\ roll' = [roll EXCEPT !.pc = "compared",
                            !.raw = degreeOfSuccess(roll.total, roll.dc),
                            !.outcome = degreeOfSuccess(roll.total, roll.dc)]
    /\ UNCHANGED <<rActor, tree, phase, cursor, log, synthetics, warnings, outsideRule>>

\* The registered adjustments are consulted: the first that applies to the check
\* and its raw outcome shifts the outcome.
AdjustOutcome ==
    /\ roll.pc = "compared"
    /\ LET apps == applicableAdjustments(synthetics.adjustments, roll.selector, roll.raw)
           amount == IF apps = <<>> THEN "none" ELSE adjustmentFor(apps[1], roll.raw)
       IN  roll' = [roll EXCEPT !.pc = "adjusted",
                                !.outcome = adjustDegree(roll.raw, amount),
                                !.applied = amount,
                                !.adjusted = @ + 1]
    /\ UNCHANGED <<rActor, tree, phase, cursor, log, synthetics, warnings, outsideRule>>

\* Mutant: surfacing the outcome applies the adjustment a second time.
SurfaceOutcome_adjustsAgain ==
    /\ roll.pc = "adjusted"
    /\ roll' = [roll EXCEPT !.pc = "surfaced",
                            !.outcome = adjustDegree(roll.outcome, roll.applied),
                            !.adjusted = @ + 1]
    /\ UNCHANGED <<rActor, tree, phase, cursor, log, synthetics, warnings, outsideRule>>

\* The outcome goes to the chat log with the notes registered for the check whose
\* outcome set holds the rolled outcome.
SurfaceOutcome ==
    /\ roll.pc = "adjusted"
    /\ LET shown ==
               SelectSeq(synthetics.notes,
                         LAMBDA n : /\ n.selector = roll.selector
                                    /\ DegreeNames[roll.raw] \in Range(n.outcome))
       IN  roll' = [roll EXCEPT !.pc = "surfaced",
                                !.notes = [i \in 1 .. Len(shown) |-> shown[i].text]]
    /\ UNCHANGED <<rActor, tree, phase, cursor, log, synthetics, warnings, outsideRule>>

RuleNext ==
    \/ CreateItem
    \/ UpdateLevel
    \/ BeginPrepare
    \/ ApplyRule
    \/ FinishPrepare
    \/ RollCheck
    \/ CompareDC
    \/ AdjustOutcome
    \/ SurfaceOutcome

(***************************************************************************)
(* Part III: the predicate evaluator                                       *)
(***************************************************************************)

\* A comparator atom {<op>: [fact, number]}.
Compare(op, fact, n) == [op |-> op, fact |-> fact, n |-> n]

\* The predicates handed to the evaluator: that of Flames, comparisons of a fact
\* the bag may lack, a negated tag, nested groups, the empty predicate.
PredicateSamples ==
    { FlamesPredicate,
      << Gte("target:level", 1) >>,
      << Has("class:oracle"), Compare("lt", "target:level", 13) >>,
      << Compare("lte", "self:level", 12), Has("feature:lightning-reflexes") >>,
      << [op |-> "nothas", tag |-> "class:oracle"] >>,
      << [op |-> "or", args |-> << Has("class:oracle"), Gte("self:level", 13) >>] >>,
      << [op |-> "not", args |-> << Gte("target:level", 1) >>] >>,
      << [op |-> "and", args |-> << Has("class:oracle"), Compare("eq", "self:level", 13) >>],
         Compare("gt", "target:level", 2) >>,
      <<>> }

OptionSets == SUBSET {"class:oracle", "feature:lightning-reflexes"}

\* Bags of numeric facts: empty, the actor's level alone, the level and a target's.
FactBags ==
    { [f \in {} |-> 0],
      [f \in {"self:level"} |-> 5],
      [f \in {"self:level"} |-> 13],
      [f \in {"self:level", "target:level"} |-> IF f = "self:level" THEN 13 ELSE 3] }

PredInit ==
    /\ pPredicate \in PredicateSamples
    /\ pOptions \in OptionSets
    /\ pFacts \in FactBags
    /\ pVerdicts = <<>>

\* The evaluator is asked about the predicate; it answers and touches nothing.
TestPredicate ==
    /\ Len(pVerdicts) < MaxTests
    /\ pVerdicts' = Append(pVerdicts, testPredicate(pPredicate, pOptions, pFacts))
    /\ UNCHANGED <<pPredicate, pOptions, pFacts, outsidePred>>

\* Another predicate, roll-option set or fact bag is taken up.
ChangeInputs ==
    /\ pVerdicts # <<>>
    /\ \E q \in PredicateSamples, o \in OptionSets, f \in FactBags :
        /\ <<q, o, f>> # <<pPredicate, pOptions, pFacts>>
        /\ pPredicate' = q
        /\ pOptions' = o
        /\ pFacts' = f
    /\ pVerdicts' = <<>>
    /\ UNCHANGED outsidePred

PredNext == TestPredicate \/ ChangeInputs

\* Part III at rest, for the behaviours of the other parts.
PredIdle ==
    /\ pPredicate = <<>>
    /\ pOptions = {}
    /\ pFacts = [f \in {} |-> 0]
    /\ pVerdicts = <<>>

(***************************************************************************)
(* Part IV: flat modifiers of a statistic                                  *)
(***************************************************************************)

\* The typed categories of a flat modifier, in the order they are aggregated.
ModifierTypes == << "ability", "item", "circumstance" >>

\* A flat modifier is a bonus (above 0) or a penalty (below 0) of a type.
ModifierValues == {-2, -1, 1, 2}
FlatModifiers == [type : Range(ModifierTypes), value : ModifierValues]

RECURSIVE highestBonus(_, _, _)
\* The highest bonus of the type among mods[from..], 0 if there is none.
highestBonus(mods, type, from) ==
    IF from > Len(mods) THEN 0
    ELSE LET rest == highestBonus(mods, type, from + 1)
         IN  IF mods[from].type = type /\ mods[from].value > rest
             THEN mods[from].value ELSE rest

RECURSIVE worstPenalty(_, _, _)
\* The worst penalty of the type among mods[from..], 0 if there is none.
worstPenalty(mods, type, from) ==
    IF from > Len(mods) THEN 0
    ELSE LET rest == worstPenalty(mods, type, from + 1)
         IN  IF mods[from].type = type /\ mods[from].value < rest
             THEN mods[from].value ELSE rest

RECURSIVE sumValues(_, _)
sumValues(mods, from) ==
    IF from > Len(mods) THEN 0 ELSE mods[from].value + sumValues(mods, from + 1)

RECURSIVE sumTypes(_, _)
\* Type by type, the highest bonus and the worst penalty of the type.
sumTypes(mods, t) ==
    IF t > Len(ModifierTypes) THEN 0
    ELSE highestBonus(mods, ModifierTypes[t], 1) + worstPenalty(mods, ModifierTypes[t], 1)
         + sumTypes(mods, t + 1)

\* Mutant: every modifier counts.
aggregate_allStack(mods) == sumValues(mods, 1)

\* The total of the flat modifiers of a statistic under the stacking rule.
aggregate(mods) == sumTypes(mods, 1)

StatInit ==
    /\ modifiers = <<>>
    /\ statTotal = 0

\* A rule element contributes a flat modifier to the statistic.
AddModifier ==
    /\ Len(modifiers) < MaxModifiers
    /\ \E m \in FlatModifiers : modifiers' = Append(modifiers, m)
    /\ statTotal' = aggregate(modifiers')
    /\ UNCHANGED outsideStat

\* A new preparation cycle starts: the statistic has no modifiers.
ResetStatistic ==
    /\ modifiers # <<>>
    /\ modifiers' = <<>>
    /\ statTotal' = aggregate(modifiers')
    /\ UNCHANGED outsideStat

StatNext == AddModifier \/ ResetStatistic

\* Part IV at rest, for the behaviours of the other parts.
StatIdle == StatInit

(***************************************************************************)
(* Part V: the crafting entry                                              *)
(***************************************************************************)

\* An optional number: absent, or the number n.
Absent == [defined |-> FALSE, n |-> 0]
Some(n) == [defined |-> TRUE, n |-> n]

\* The formulas the character knows (knownFormulas), by uuid.
KnownFormulas ==
    [ fire |-> [ uuid |-> "fire", level |-> 1, type |-> "weapon", consumableType |-> "",
                 traits |-> {"alchemical", "bomb"} ],
      tonic |-> [ uuid |-> "tonic", level |-> 4, type |-> "consumable",
                  consumableType |-> "elixir", traits |-> {"alchemical"} ],
      rune |-> [ uuid |-> "rune", level |-> 2, type |-> "equipment", consumableType |-> "",
                 traits |-> {"magical"} ] ]

FormulaIds == DOMAIN KnownFormulas

\* parentActor.level
ActorLevel == 3

\* The data of the entries (CraftingEntryData without its formulas).  A batch
\* size or maximum item level of 0 stands for an absent one: the constructor and
\* reagentCost treat both alike.
EntryData ==
    { [ selector |-> "alchemist", isAlchemical |-> TRUE, maxSlots |-> 0,
        requiredTraits |-> << {"alchemical"} >>, fieldDiscovery |-> "bomb",
        batchSize |-> 0, fieldDiscoveryBatchSize |-> 0, maxItemLevel |-> 0,
        maxFieldDiscoveryItemLevel |-> Absent ],
      [ selector |-> "chirurgeon", isAlchemical |-> TRUE, maxSlots |-> 0,
        requiredTraits |-> << {"alchemical"} >>, fieldDiscovery |-> "elixir",
        batchSize |-> 1, fieldDiscoveryBatchSize |-> 4, maxItemLevel |-> 1,
        maxFieldDiscoveryItemLevel |-> Some(3) ],
      [ selector |-> "scrolls", isAlchemical |-> FALSE, maxSlots |-> 1,
        requiredTraits |-> <<>>, fieldDiscovery |-> "",
        batchSize |-> 0, fieldDiscoveryBatchSize |-> 0, maxItemLevel |-> 0,
        maxFieldDiscoveryItemLevel |-> Absent ] }

\* The entry of a caller that is followed one call further: without a limit of
\* slots, not alchemical, and new.
KeptEntry ==
    [ selector |-> "notebook", isAlchemical |-> FALSE, maxSlots |-> 0,
      requiredTraits |-> <<>>, fieldDiscovery |-> "",
      batchSize |-> 0, fieldDiscoveryBatchSize |-> 0, maxItemLevel |-> 0,
      maxFieldDiscoveryItemLevel |-> Absent ]

\* Persisted arrays an entry is loaded from.  A flag is "undefined", "true" or
\* "false".
ActorPreparedSamples ==
    { <<>>,
      << [ itemUUID |-> "fire", quantity |-> Some(4), expended |-> "false",
           isSignatureItem |-> "undefined" ] >>,
      << [ itemUUID |-> "tonic", quantity |-> Absent, expended |-> "undefined",
           isSignatureItem |-> "true" ],
         [ itemUUID |-> "fire", quantity |-> Some(0), expended |-> "undefined",
           isSignatureItem |-> "undefined" ] >>,
      << [ itemUUID |-> "lost", quantity |-> Some(2), expended |-> "true",
           isSignatureItem |-> "false" ],
         [ itemUUID |-> "fire", quantity |-> Some(2), expended |-> "true",
           isSignatureItem |-> "false" ] >> }

\* The positions and quantities the operations are called with.
CallIndexes == 1 .. 2
CallQuantities == {0, 3}

\* constructor: the fields of the entry with their defaults.
newEntry(d) ==
    [ selector |-> d.selector,
      isAlchemical |-> d.isAlchemical,
      maxSlots |-> d.maxSlots,
      maxItemLevel |-> IF d.maxItemLevel # 0 THEN d.maxItemLevel ELSE ActorLevel,
      fieldDiscovery |-> d.fieldDiscovery,
      batchSize |-> d.batchSize,
      fieldDiscoveryBatchSize |-> d.fieldDiscoveryBatchSize,
      maxFieldDiscoveryItemLevel |-> d.maxFieldDiscoveryItemLevel,
      requiredTraits |-> IF Len(d.requiredTraits) = 0 THEN << {} >> ELSE d.requiredTraits ]

\* The object a position of the prepared list holds (ref).  The constructor
\* builds an object of the list's own for every position, and so does a caller
\* that builds a formula for the call: OwnObject.  A caller that keeps one
\* CraftingFormula for a known formula and passes it again gives the list that
\* very object, named by the formula's uuid: every position that holds it shows
\* the same quantity and flags.
OwnObject == ""

\* A load that gives a formula persisted without a quantity the quantity 1.
loadFormulas_defaultsQuantity(persisted) ==
    LET known == SelectSeq(persisted, LAMBDA prepData : prepData.itemUUID \in FormulaIds)
    IN  [ i \in 1 .. Len(known) |->
            [ uuid |-> known[i].itemUUID,
              quantity |-> IF known[i].quantity.defined THEN known[i].quantity ELSE Some(1),
              expended |-> known[i].expended,
              isSignatureItem |-> known[i].isSignatureItem, ref |-> OwnObject ] ]

\* constructor: the prepared formulas, one for every persisted record whose
\* itemUUID is a known formula.
loadFormulas(persisted) ==
    LET known == SelectSeq(persisted, LAMBDA prepData : prepData.itemUUID \in FormulaIds)
    IN  [ i \in 1 .. Len(known) |->
            [ uuid |-> known[i].itemUUID, quantity |-> known[i].quantity,
              expended |-> known[i].expended,
              isSignatureItem |-> known[i].isSignatureItem, ref |-> OwnObject ] ]

\* A CraftingFormula as it is built: no quantity and no flags.
NewFormula == [quantity |-> Absent, expended |-> "undefined", isSignatureItem |-> "undefined"]

\* A test for a quantity that is there, whatever it is.
truthy_defined(q) == q.defined

\* JavaScript truthiness of an optional number.
truthy(q) == q.defined /\ q.n # 0

\* JavaScript truthiness of a flag.
flagSet(f) == f = "true"

\* A rounding that drops the fraction.
ceilDiv_floor(quantity, size) == quantity \div size

\* Math.ceil(quantity / size) for a positive size.
ceilDiv(quantity, size) == (quantity + size - 1) \div size

\* The batch size reagentCost uses for a prepared formula.
formulaBatchSize(e, formula) ==
    LET item == KnownFormulas[formula.uuid]
        options ==
            item.traits \cup (IF item.type = "consumable" THEN {item.consumableType} ELSE {})
        fieldDiscoveryBatchSize ==
            IF e.fieldDiscoveryBatchSize # 0 THEN e.fieldDiscoveryBatchSize ELSE 3
        batchSize == IF e.batchSize # 0 THEN e.batchSize ELSE 2
    IN  IF /\ \/ ~e.maxFieldDiscoveryItemLevel.defined
              \/ e.maxFieldDiscoveryItemLevel.n >= item.level
           /\ \/ e.fieldDiscovery \in options
              \/ flagSet(formula.isSignatureItem)
        THEN fieldDiscoveryBatchSize ELSE batchSize

RECURSIVE reagentSum(_, _, _)
reagentSum(e, formulas, from) ==
    IF from > Len(formulas) THEN 0
    ELSE LET quantity ==
                 IF truthy(formulas[from].quantity) THEN formulas[from].quantity.n ELSE 1
         IN  ceilDiv(quantity, formulaBatchSize(e, formulas[from]))
             + reagentSum(e, formulas, from + 1)

\* get reagentCost
reagentCost(e, formulas) == IF ~e.isAlchemical THEN 0 ELSE reagentSum(e, formulas, 1)

\* checkEntryRequirements: its result and the warning it shows ("" for none).
checkEntryRequirements(e, formulas, uuid) ==
    LET item == KnownFormulas[uuid]
    IN  IF e.maxSlots # 0 /\ Len(formulas) >= e.maxSlots
        THEN [ok |-> FALSE, warning |-> ""]
        ELSE IF ActorLevel < item.level
        THEN [ok |-> FALSE, warning |-> "PF2E.CraftingTab.Alerts.CharacterLevel"]
        ELSE IF item.level > e.maxItemLevel
        THEN [ok |-> FALSE, warning |-> "PF2E.CraftingTab.Alerts.MaxItemLevel"]
        ELSE IF ~(\E i \in 1 .. Len(e.requiredTraits) : e.requiredTraits[i] \subseteq item.traits)
        THEN [ok |-> FALSE, warning |-> "PF2E.CraftingTab.Alerts.ItemMissingTraits"]
        ELSE [ok |-> TRUE, warning |-> ""]

\* An update that carries the formulas and their quantities without their flags.
projection_dropsFlags(formulas) ==
    [ i \in 1 .. Len(formulas) |->
        [ itemUUID |-> formulas[i].uuid, quantity |-> formulas[i].quantity,
          expended |-> "undefined", isSignatureItem |-> "undefined" ] ]

\* updateActorEntryFormulas: the array an update carries.
projection(formulas) ==
    [ i \in 1 .. Len(formulas) |->
        [ itemUUID |-> formulas[i].uuid, quantity |-> formulas[i].quantity,
          expended |-> formulas[i].expended,
          isSignatureItem |-> formulas[i].isSignatureItem ] ]

\* Array.prototype.splice(index, 1)
splice(formulas, index) == SubSeq(formulas, 1, index - 1) \o SubSeq(formulas, index + 1, Len(formulas))

\* A guard that looks at the position alone.
addressed_anyUUID(index, itemUUID) == index <= Len(preparedFormulas)

\* The guard of the operations that address a prepared formula by position.
addressed(index, itemUUID) ==
    index <= Len(preparedFormulas) /\ preparedFormulas[index].uuid = itemUUID

\* The formula the operations are called for at a position: that of the formula
\* prepared there, or another one.
CallUUIDs(index) ==
    IF index <= Len(preparedFormulas)
    THEN {preparedFormulas[index].uuid, "rune"} ELSE {"fire"}

CraftInit ==
    /\ \E d \in EntryData, persisted \in ActorPreparedSamples :
        /\ craftingEntry = newEntry(d)
        /\ actorPreparedFormulas = persisted
        /\ preparedFormulas = loadFormulas(persisted)
    /\ pendingUpdates = <<>>
    /\ notifications = <<>>
    /\ keptFormulas = [uuid \in FormulaIds |-> NewFormula]
    /\ lastCall = [op |-> "constructor", ok |-> TRUE, index |-> 0, itemUUID |-> ""]
    /\ calls = 0

\* The entry as it is constructed for the first time: nothing is persisted yet.
KeptInit ==
    /\ craftingEntry = newEntry(KeptEntry)
    /\ actorPreparedFormulas = <<>>
    /\ preparedFormulas = loadFormulas(<<>>)
    /\ pendingUpdates = <<>>
    /\ notifications = <<>>
    /\ keptFormulas = [uuid \in FormulaIds |-> NewFormula]
    /\ lastCall = [op |-> "constructor", ok |-> TRUE, index |-> 0, itemUUID |-> ""]
    /\ calls = 0

\* The calls an entry is followed for.
CallLimit == IF craftingEntry.selector = KeptEntry.selector THEN MaxKeptCalls ELSE MaxCalls

\* What every operation does besides its own work: the call is counted, and the
\* operations that reach updateActorEntryFormulas issue an update carrying the
\* whole prepared list as the operation left it.
Called(op, index, itemUUID, ok, updates) ==
    /\ calls < CallLimit
    /\ calls' = calls + 1
    /\ lastCall' = [op |-> op, ok |-> ok, index |-> index, itemUUID |-> itemUUID]
    /\ pendingUpdates' =
          IF updates THEN Append(pendingUpdates, projection(preparedFormulas'))
          ELSE pendingUpdates
    /\ UNCHANGED <<craftingEntry, actorPreparedFormulas, outsideCraft>>

\* The positions that hold the object at a position.
holders(formulas, index) ==
    { j \in 1 .. Len(formulas) :
        \/ j = index
        \/ formulas[index].ref # OwnObject /\ formulas[j].ref = formulas[index].ref }

\* An assignment to the fields of the object at a position (prepData.quantity =,
\* prepData.expended =, prepData.isSignatureItem =): the list after it.
assign(formulas, index, quantity, expended, isSignatureItem) ==
    [ j \in 1 .. Len(formulas) |->
        IF j \in holders(formulas, index)
        THEN [ uuid |-> formulas[j].uuid, quantity |-> quantity, expended |-> expended,
               isSignatureItem |-> isSignatureItem, ref |-> formulas[j].ref ]
        ELSE formulas[j] ]

\* The caller's objects after the same assignment.
keptAfter(formulas, index, quantity, expended, isSignatureItem) ==
    [ uuid \in FormulaIds |->
        IF uuid = formulas[index].ref
        THEN [quantity |-> quantity, expended |-> expended, isSignatureItem |-> isSignatureItem]
        ELSE keptFormulas[uuid] ]

\* The body of an operation that addresses a position: past the guard it
\* assigns to the object at the position and, with remove, splices the position
\* out (unprepareFormula).
Addressing(op, index, itemUUID, quantity, expended, isSignatureItem, remove) ==
    /\ preparedFormulas' =
          IF ~addressed(index, itemUUID) THEN preparedFormulas
          ELSE LET assigned ==
                       assign(preparedFormulas, index, quantity, expended, isSignatureItem)
               IN  IF remove THEN splice(assigned, index) ELSE assigned
    /\ keptFormulas' =
          IF ~addressed(index, itemUUID) THEN keptFormulas
          ELSE keptAfter(preparedFormulas, index, quantity, expended, isSignatureItem)
    /\ Called(op, index, itemUUID, addressed(index, itemUUID), addressed(index, itemUUID))
    /\ UNCHANGED notifications

\* prepareFormula(formula): the result of checkEntryRequirements is not used.
\* The formula is one the caller has built for the call or one it keeps.
PrepareFormula ==
    \E uuid \in FormulaIds, kept \in BOOLEAN :
        LET check == checkEntryRequirements(craftingEntry, preparedFormulas, uuid)
            same == {i \in 1 .. Len(preparedFormulas) : preparedFormulas[i].uuid = uuid}
            index == CHOOSE i \in same : \A j \in same : i <= j
            quantity ==
                IF truthy(preparedFormulas[index].quantity)
                THEN preparedFormulas[index].quantity.n ELSE 1
            formula == IF kept THEN keptFormulas[uuid] ELSE NewFormula
            prepData ==
                [ uuid |-> uuid,
                  quantity |-> IF craftingEntry.isAlchemical THEN Some(1) ELSE formula.quantity,
                  expended |-> formula.expended, isSignatureItem |-> formula.isSignatureItem,
                  ref |-> IF kept THEN uuid ELSE OwnObject ]
        IN  /\ notifications' =
                  IF check.warning # "" THEN Append(notifications, check.warning)
                  ELSE notifications
            /\ preparedFormulas' =
                  IF craftingEntry.isAlchemical /\ same # {}
                  THEN assign(preparedFormulas, index, Some(quantity + 1),
                              preparedFormulas[index].expended,
                              preparedFormulas[index].isSignatureItem)
                  ELSE Append(preparedFormulas, prepData)
            /\ keptFormulas' =
                  IF craftingEntry.isAlchemical /\ same # {}
                  THEN keptAfter(preparedFormulas, index, Some(quantity + 1),
                                 preparedFormulas[index].expended,
                                 preparedFormulas[index].isSignatureItem)
                  ELSE IF kept
                  THEN [ u \in FormulaIds |->
                           IF u = uuid
                           THEN [ quantity |-> prepData.quantity, expended |-> prepData.expended,
                                  isSignatureItem |-> prepData.isSignatureItem ]
                           ELSE keptFormulas[u] ]
                  ELSE keptFormulas
            /\ Called("prepareFormula", 0, uuid, check.ok, TRUE)

\* unprepareFormula(index, itemUUID)
UnprepareFormula ==
    \E index \in CallIndexes : \E itemUUID \in CallUUIDs(index) :
        Addressing("unprepareFormula", index, itemUUID, preparedFormulas[index].quantity,
                   preparedFormulas[index].expended, preparedFormulas[index].isSignatureItem,
                   TRUE)

\* prepData.quantity ? (prepData.quantity += 1) : (prepData.quantity = 2)
increased(quantity) == IF truthy(quantity) THEN quantity.n + 1 ELSE 2

\* increaseFormulaQuantity(index, itemUUID)
IncreaseFormulaQuantity ==
    \E index \in CallIndexes : \E itemUUID \in CallUUIDs(index) :
        Addressing("increaseFormulaQuantity", index, itemUUID,
                   Some(increased(preparedFormulas[index].quantity)),
                   preparedFormulas[index].expended, preparedFormulas[index].isSignatureItem,
                   FALSE)

\* prepData.quantity ? (prepData.quantity -= 1) : (prepData.quantity = 0)
decreased(quantity) == IF truthy(quantity) THEN quantity.n - 1 ELSE 0

\* decreaseFormulaQuantity(index, itemUUID): a formula whose quantity comes to 0
\* or less is unprepared.
DecreaseFormulaQuantity ==
    \E index \in CallIndexes : \E itemUUID \in CallUUIDs(index) :
        Addressing("decreaseFormulaQuantity", index, itemUUID,
                   Some(decreased(preparedFormulas[index].quantity)),
                   preparedFormulas[index].expended, preparedFormulas[index].isSignatureItem,
                   decreased(preparedFormulas[index].quantity) <= 0)

\* setFormulaQuantity(index, itemUUID, quantity)
SetFormulaQuantity ==
    \E index \in CallIndexes : \E itemUUID \in CallUUIDs(index) :
        \E quantity \in CallQuantities :
            Addressing("setFormulaQuantity", index, itemUUID, Some(quantity),
                       preparedFormulas[index].expended,
                       preparedFormulas[index].isSignatureItem, quantity <= 0)

\* The negation of a flag: !undefined and !false are true.
toggled(f) == IF flagSet(f) THEN "false" ELSE "true"

\* toggleFormulaExpended(index, itemUUID)
ToggleFormulaExpended ==
    \E index \in CallIndexes : \E itemUUID \in CallUUIDs(index) :
        Addressing("toggleFormulaExpended", index, itemUUID, preparedFormulas[index].quantity,
                   toggled(preparedFormulas[index].expended),
                   preparedFormulas[index].isSignatureItem, FALSE)

\* toggleSignatureItem(index, itemUUID)
ToggleSignatureItem ==
    \E index \in CallIndexes : \E itemUUID \in CallUUIDs(index) :
        Addressing("toggleSignatureItem", index, itemUUID, preparedFormulas[index].quantity,
                   preparedFormulas[index].expended,
                   toggled(preparedFormulas[index].isSignatureItem), FALSE)

\* updateActorEntryFormulas(), called with no operation before it.
UpdateActorEntryFormulas ==
    /\ UNCHANGED <<preparedFormulas, keptFormulas, notifications>>
    /\ Called("updateActorEntryFormulas", 0, "", TRUE, TRUE)

\* parentActor.update: the host applies the oldest update that is pending.
ApplyUpdate ==
    /\ pendingUpdates # <<>>
    /\ actorPreparedFormulas' = Head(pendingUpdates)
    /\ pendingUpdates' = Tail(pendingUpdates)
    /\ UNCHANGED <<craftingEntry, preparedFormulas, notifications, keptFormulas, lastCall, calls,
                   outsideCraft>>

CraftNext ==
    \/ PrepareFormula
    \/ UnprepareFormula
    \/ IncreaseFormulaQuantity
    \/ DecreaseFormulaQuantity
    \/ SetFormulaQuantity
    \/ ToggleFormulaExpended
    \/ ToggleSignatureItem
    \/ UpdateActorEntryFormulas
    \/ ApplyUpdate

\* Part V at rest, for the behaviours of the other parts.
CraftIdle ==
    /\ craftingEntry = newEntry(CHOOSE d \in EntryData : d.selector = "alchemist")
    /\ preparedFormulas = <<>>
    /\ actorPreparedFormulas = <<>>
    /\ pendingUpdates = <<>>
    /\ notifications = <<>>
    /\ keptFormulas = [uuid \in FormulaIds |-> NewFormula]
    /\ lastCall = [op |-> "constructor", ok |-> TRUE, index |-> 0, itemUUID |-> ""]
    /\ calls = 0

(***************************************************************************)
(* Part VI: updates and deletions of owned items                           *)
(***************************************************************************)

\* A description value: null, or a string.
Null == [null |-> TRUE, s |-> ""]
Str(s) == [null |-> FALSE, s |-> s]

\* A field of a change: not mentioned, or set to a value.
Untouched(v) == [defined |-> FALSE, value |-> v]
Set(v) == [defined |-> TRUE, value |-> v]

\* A grantedBy flag: none, or the granter's id with an onDelete policy ("" for a
\* missing one).
NoGranter == [id |-> "", onDelete |-> ""]

\* The sources of the items of the actor.
ItemSources ==
    [ cls |->
        [ type |-> "class", name |-> "Oracle", description |-> Str("Class"), hp |-> 8,
          containerId |-> "", grantedBy |-> NoGranter,
          itemGrants |-> << [id |-> "featA", onDelete |-> ""],
                            [id |-> "featB", onDelete |-> "detach"],
                            [id |-> "gear", onDelete |-> "detach"] >>,
          rules |-> << "GrantItem", "GrantItem", "GrantItem" >> ],
      featA |->
        [ type |-> "feat", name |-> "Mystery", description |-> Str(""), hp |-> 0,
          containerId |-> "", grantedBy |-> [id |-> "cls", onDelete |-> ""],
          itemGrants |-> << [id |-> "featC", onDelete |-> ""] >>,
          rules |-> << "GrantItem", "RollOption" >> ],
      featB |->
        [ type |-> "feat", name |-> "Cantrip", description |-> Str("Feat"), hp |-> 0,
          containerId |-> "", grantedBy |-> [id |-> "cls", onDelete |-> "detach"],
          itemGrants |-> <<>>, rules |-> <<>> ],
      featC |->
        [ type |-> "feat", name |-> "Toughness", description |-> Str("Feat"), hp |-> 2,
          containerId |-> "", grantedBy |-> [id |-> "featA", onDelete |-> "cascade"],
          itemGrants |-> <<>>, rules |-> << "FlatModifier" >> ],
      gear |->
        [ type |-> "equipment", name |-> "Tools", description |-> Str("Gear"), hp |-> 0,
          containerId |-> "pack", grantedBy |-> [id |-> "cls", onDelete |-> ""],
          itemGrants |-> <<>>, rules |-> <<>> ],
      pack |->
        [ type |-> "backpack", name |-> "Backpack", description |-> Str(""), hp |-> 0,
          containerId |-> "", grantedBy |-> NoGranter,
          itemGrants |-> <<>>, rules |-> <<>> ] ]

ItemIds == DOMAIN ItemSources

\* PHYSICAL_ITEM_TYPES
PhysicalItemTypes ==
    {"armor", "backpack", "book", "consumable", "equipment", "treasure", "weapon"}

\* Mutant: a missing grantedBy.onDelete is "detach" for every item.
prepareBaseData_detachByDefault(item) ==
    [ type |-> item.type, name |-> item.name, description |-> item.description,
      hp |-> item.hp, containerId |-> item.containerId, rules |-> item.rules,
      grantedBy |->
        [ id |-> item.grantedBy.id,
          onDelete |->
            IF item.grantedBy.id # "" /\ item.grantedBy.onDelete = ""
            THEN "detach" ELSE item.grantedBy.onDelete ],
      itemGrants |->
        [ i \in 1 .. Len(item.itemGrants) |->
            [ id |-> item.itemGrants[i].id,
              onDelete |->
                IF item.itemGrants[i].onDelete = "" THEN "detach"
                ELSE item.itemGrants[i].onDelete ] ] ]

\* Mutant: the defaults replace the policies that are already set.
prepareBaseData_overwrites(item) ==
    [ type |-> item.type, name |-> item.name, description |-> item.description,
      hp |-> item.hp, containerId |-> item.containerId, rules |-> item.rules,
      grantedBy |->
        [ id |-> item.grantedBy.id,
          onDelete |->
            IF item.grantedBy.id # ""
            THEN (IF item.type \in PhysicalItemTypes THEN "detach" ELSE "cascade")
            ELSE item.grantedBy.onDelete ],
      itemGrants |->
        [ i \in 1 .. Len(item.itemGrants) |->
            [id |-> item.itemGrants[i].id, onDelete |-> "detach"] ] ]

\* ItemPF2e.prepareBaseData: the default onDelete policies of the grant flags.
prepareBaseData(item) ==
    [ type |-> item.type, name |-> item.name, description |-> item.description,
      hp |-> item.hp, containerId |-> item.containerId, rules |-> item.rules,
      grantedBy |->
        [ id |-> item.grantedBy.id,
          onDelete |->
            IF item.grantedBy.id # "" /\ item.grantedBy.onDelete = ""
            THEN (IF item.type \in PhysicalItemTypes THEN "detach" ELSE "cascade")
            ELSE item.grantedBy.onDelete ],
      itemGrants |->
        [ i \in 1 .. Len(item.itemGrants) |->
            [ id |-> item.itemGrants[i].id,
              onDelete |->
                IF item.itemGrants[i].onDelete = "" THEN "detach"
                ELSE item.itemGrants[i].onDelete ] ] ]

\* Mutant: the list is passed on with its repetitions.
unique_keepsAll(ids) == ids

\* Array.from(new Set(ids)): the first occurrence of every id, in order.
RECURSIVE unique(_)
unique(ids) ==
    IF ids = <<>> THEN <<>>
    ELSE LET front == unique(SubSeq(ids, 1, Len(ids) - 1))
             last == ids[Len(ids)]
         IN  IF \E i \in 1 .. Len(front) : front[i] = last THEN front
             ELSE Append(front, last)

\* The item types whose changes can alter a character's maximum hit points.
HitPointItemTypes == {"ancestry", "background", "class", "feat", "heritage"}

\* actor.hitPoints.max of an actor holding the given items.
RECURSIVE sumHP(_, _)
sumHP(held, ids) ==
    IF ids = {} THEN 0
    ELSE LET id == CHOOSE x \in ids : TRUE
         IN  held[id].hp + sumHP(held, ids \ {id})

hpMax(held) == sumHP(held, DOMAIN held)

\* Mutant: the current hit points are set to the difference.
newHitPoints_difference(value, hpMaxDifference) == hpMaxDifference

\* newHitPoints = this.actor.hitPoints.value + hpMaxDifference
newHitPoints(value, hpMaxDifference) == value + hpMaxDifference

\* The changes an update is submitted with.
Changes ==
    { [ description |-> Set(Null), name |-> Untouched(""), hp |-> Untouched(0) ],
      [ description |-> Set(Null), name |-> Set("Renamed"), hp |-> Set(10) ],
      [ description |-> Set(Str("New")), name |-> Untouched(""), hp |-> Untouched(0) ],
      [ description |-> Untouched(Null), name |-> Set("Renamed"), hp |-> Set(10) ] }

\* The items updates are submitted for.
UpdatedIds == {"cls", "gear"}

\* The id lists deletions are requested with.
DeleteRequests ==
    { << "cls" >>, << "featA" >>, << "featB", "featB" >>, << "cls", "gear" >>,
      << "pack" >>, << "ghost", "featC" >>, << "pack", "cls" >> }

\* Mutant: a null description is submitted as it is.
coerceDescription_keepsNull(changed) == changed

\* _preUpdate: a description value of null becomes the empty string.
coerceDescription(changed) ==
    IF changed.description.defined /\ changed.description.value = Null
    THEN [ description |-> Set(Str("")), name |-> changed.name, hp |-> changed.hp ]
    ELSE changed

\* updateSource: the item's data with the changed fields replaced.
updateSource(source, changed) ==
    [ name |-> IF changed.name.defined THEN changed.name.value ELSE source.name,
      description |->
        IF changed.description.defined THEN changed.description.value ELSE source.description,
      hp |-> IF changed.hp.defined THEN changed.hp.value ELSE source.hp,
      containerId |-> source.containerId ]

\* The data an owned item starts with.
ownedData(id) ==
    [ name |-> ItemSources[id].name, description |-> ItemSources[id].description,
      hp |-> ItemSources[id].hp, containerId |-> ItemSources[id].containerId ]

NoDeletion == [phase |-> "idle", requested |-> <<>>, pendingItems |-> <<>>, cursor |-> 0, remote |-> 0]

NoUpdate ==
    [ id |-> "", submitted |-> [ description |-> Untouched(Null), name |-> Untouched(""),
                                 hp |-> Untouched(0) ],
      committed |-> [ description |-> Untouched(Null), name |-> Untouched(""),
                      hp |-> Untouched(0) ] ]

ItemInit ==
    /\ ownedItems = [id \in ItemIds |-> ownedData(id)]
    /\ hpValue = hpMax(ownedItems)
    /\ deletion = NoDeletion
    /\ itemEvents = <<>>
    /\ lastUpdate = NoUpdate
    /\ itemOps = 0

\* item.update(changed), through ItemPF2e._preUpdate, for an item of a character.
UpdateItem ==
    \E id \in UpdatedIds \cap DOMAIN ownedItems, submitted \in Changes :
        LET changed == coerceDescription(submitted)
            clone == [ownedItems EXCEPT ![id] = updateSource(ownedItems[id], changed)]
            hpMaxDifference == hpMax(clone) - hpMax(ownedItems)
            adjusts == ItemSources[id].type \in HitPointItemTypes /\ hpMaxDifference # 0
            rules == ItemSources[id].rules
        IN  /\ deletion.phase = "idle"
            /\ creation.phase = "idle"
            /\ itemOps < MaxItemOps
            /\ itemOps' = itemOps + 1
            /\ hpValue' = IF adjusts THEN newHitPoints(hpValue, hpMaxDifference) ELSE hpValue
            /\ itemEvents' =
                  (IF adjusts THEN << [call |-> "actor.update", id |-> id, changed |-> changed] >>
                   ELSE <<>>)
                  \o [i \in 1 .. Len(rules) |->
                        [call |-> "rule.preUpdate", id |-> id, changed |-> changed]]
                  \o << [call |-> "super._preUpdate", id |-> id, changed |-> changed] >>
            /\ lastUpdate' = [id |-> id, submitted |-> submitted, committed |-> changed]
            /\ ownedItems' = clone
            /\ UNCHANGED <<deletion, outsideItem>>

\* ContainerPF2e.ejectContents, for the containers among the given items.
ejectContents(held, containers) ==
    [ id \in DOMAIN held |->
        [ name |-> held[id].name, description |-> held[id].description, hp |-> held[id].hp,
          containerId |->
            IF held[id].containerId \in containers THEN "" ELSE held[id].containerId ] ]

\* deleteDocuments(ids, {parent: actor}) up to its first preDelete callback: the
\* requested ids without duplicates, the items the actor has for them, and the
\* contents of the containers among these ejected.
DeleteDocuments ==
    \E ids \in DeleteRequests :
        LET items == SelectSeq(unique(ids), LAMBDA id : id \in DOMAIN ownedItems)
            containers ==
                {items[i] : i \in {j \in 1 .. Len(items) : ItemSources[items[j]].type = "backpack"}}
        IN  /\ deletion.phase = "idle"
            /\ itemOps < MaxItemOps
            /\ itemOps' = itemOps + 1
            /\ ownedItems' = ejectContents(ownedItems, containers)
            /\ itemEvents' =
                  SelectSeq([i \in 1 .. Len(items) |->
                                [call |-> "ejectContents", id |-> items[i], rule |-> 0]],
                            LAMBDA e : e.id \in containers)
            /\ deletion' = [ phase |-> "preDelete", requested |-> ids, pendingItems |-> items,
                             cursor |-> 1, remote |-> 0 ]
            /\ UNCHANGED <<hpValue, lastUpdate, outsideItem>>

\* GrantItem's preDelete for the grants of an item: the items the actor holds that
\* the item granted with the policy "cascade" and that are not pending yet.
cascaded(held, id, pendingItems) ==
    LET grants == prepareBaseData(ItemSources[id]).itemGrants
        grantees == [i \in 1 .. Len(grants) |-> grants[i].id]
    IN  SelectSeq(grantees,
                  LAMBDA g :
                      /\ g \in DOMAIN held
                      /\ \A i \in 1 .. Len(pendingItems) : pendingItems[i] # g
                      /\ prepareBaseData(ItemSources[g]).grantedBy.id = id
                      /\ prepareBaseData(ItemSources[g]).grantedBy.onDelete = "cascade")

\* Mutant: the callbacks of an item's rules run from its last rule to its first.
ruleCalls_reversed(call, id, n) ==
    [i \in 1 .. n |-> [call |-> call, id |-> id, rule |-> n + 1 - i]]

\* for (const rule of item.rules) await rule.<callback>?.(...): one call for
\* each rule of the item, in rule order.
ruleCalls(call, id, n) == [i \in 1 .. n |-> [call |-> call, id |-> id, rule |-> i]]

\* deleteDocuments: the preDelete callbacks of the rules of the next pending item.
\* The items a callback adds to the pending list are visited in their turn.
PreDelete ==
    LET id == deletion.pendingItems[deletion.cursor]
        rules == ItemSources[id].rules
    IN  /\ deletion.phase = "preDelete"
        /\ deletion.cursor <= Len(deletion.pendingItems)
        /\ deletion' =
              [ phase |-> "preDelete", requested |-> deletion.requested,
                pendingItems |->
                    deletion.pendingItems \o cascaded(ownedItems, id, deletion.pendingItems),
                cursor |-> deletion.cursor + 1, remote |-> deletion.remote ]
        /\ itemEvents' = itemEvents \o ruleCalls("rule.preDelete", id, Len(rules))
        /\ UNCHANGED <<ownedItems, hpValue, lastUpdate, itemOps, outsideItem>>

\* deleteDocuments: the ids of the pending items that the actor still has are
\* submitted to the host, which removes the items.
SubmitDelete ==
    LET ids == SelectSeq(unique(deletion.pendingItems), LAMBDA id : id \in DOMAIN ownedItems)
        removed == {ids[i] : i \in 1 .. Len(ids)}
    IN  /\ deletion.phase = "preDelete"
        /\ deletion.cursor > Len(deletion.pendingItems)
        /\ ownedItems' = [id \in DOMAIN ownedItems \ removed |-> ownedItems[id]]
        /\ itemEvents' =
              Append(itemEvents, [call |-> "super.deleteDocuments", id |-> "", rule |-> 0])
        /\ deletion' =
              [ phase |-> "idle", requested |-> deletion.requested,
                pendingItems |-> ids, cursor |-> 0, remote |-> deletion.remote ]
        /\ UNCHANGED <<hpValue, lastUpdate, itemOps, outsideItem>>

\* Another client's deletion of one item is applied while a callback of this
\* deletion is awaited.
RemoteDelete ==
    \E id \in DOMAIN ownedItems :
        /\ deletion.phase = "preDelete"
        /\ deletion.remote = 0
        /\ ownedItems' = [i \in DOMAIN ownedItems \ {id} |-> ownedItems[i]]
        /\ deletion' =
              [ phase |-> "preDelete", requested |-> deletion.requested,
                pendingItems |-> deletion.pendingItems, cursor |-> deletion.cursor,
                remote |-> 1 ]
        /\ UNCHANGED <<hpValue, itemEvents, lastUpdate, itemOps, outsideItem>>

ItemNext == UpdateItem \/ DeleteDocuments \/ PreDelete \/ SubmitDelete \/ RemoteDelete

\* Part VI at rest, for the behaviours of the other parts.
ItemIdle == ItemInit

(***************************************************************************)
(* Part VII: the roll options of items                                     *)
(***************************************************************************)

\* The prefixes getRollOptions is called with; "default" is a call without one.
Prefixes == {"default", "item", "", "feature"}

NoCall == [item |-> "", prefix |-> "", options |-> <<>>]

NoCollection == [items |-> <<>>, options |-> {}]

OptInit ==
    /\ optItems = <<>>
    /\ optCall = NoCall
    /\ optCollected = NoCollection
    /\ optCalls = 0

\* An item of the catalogue is created on the actor.
EmbedItem ==
    \E k \in ItemKeys :
        /\ k \notin Range(optItems)
        /\ Len(optItems) < MaxItems
        /\ optItems' = Append(optItems, k)
        /\ UNCHANGED <<optCall, optCollected, optCalls, outsideOpt>>

\* item.getRollOptions(prefix): the prefix defaults to the item's type.
GetRollOptions ==
    \E i \in 1 .. Len(optItems), prefix \in Prefixes :
        LET item == ItemCatalogue[optItems[i]]
        IN  /\ optCalls < MaxOptionCalls
            /\ optCalls' = optCalls + 1
            /\ optCall' =
                  [ item |-> optItems[i], prefix |-> prefix,
                    options |->
                        getRollOptions(item, IF prefix = "default" THEN item.type ELSE prefix) ]
            /\ UNCHANGED <<optItems, optCollected, outsideOpt>>

\* The roll options of the actor are collected from its items (section 4.1).
CollectRollOptions ==
    /\ optCalls < MaxOptionCalls
    /\ optCalls' = optCalls + 1
    /\ optCollected' =
          [ items |-> optItems,
            options |-> RollOptions(optItems, [p \in TreePaths |-> 1]) ]
    /\ UNCHANGED <<optItems, optCall, outsideOpt>>

OptNext == EmbedItem \/ GetRollOptions \/ CollectRollOptions

\* Part VII at rest, for the behaviours of the other parts.
OptIdle == OptInit

(***************************************************************************)
(* Part VIII: ActorPF2e.applyDamage                                        *)
(***************************************************************************)

\* A JavaScript number that is an integer, the value NaN, and a field that holds
\* no number (null, or the empty string of a cleared sheet input).
Number(n) == [kind |-> "num", n |-> n]
NaN == [kind |-> "nan", n |-> 0]
Blank == [kind |-> "blank", n |-> 0]

\* parseInt(hp.temp): the number, or NaN when the field holds none.
parseIntTemp(v) == IF v.kind = "num" THEN v ELSE NaN

\* Math.min(a, b)
mathMin(a, b) ==
    IF a.kind # "num" \/ b.kind # "num" THEN NaN ELSE Number(Min(a.n, b.n))

\* a - b
minus(a, b) ==
    IF a.kind # "num" \/ b.kind # "num" THEN NaN ELSE Number(a.n - b.n)

\* Math.clamped(x, lo, hi) = Math.min(hi, Math.max(x, lo))
clamped(x, lo, hi) ==
    IF x.kind # "num" THEN NaN ELSE Number(Min(hi, Max(x.n, lo)))

Tokens == {"t1", "t2", "t3"}

\* The number in the chat entry's .dice-total element.
RolledTotals == {3, 7}

\* The multipliers of the chat entry's context menu: damage, double damage, half
\* damage, healing; num / den.
Multipliers ==
    { [num |-> 1, den |-> 1], [num |-> 2, den |-> 1], [num |-> 1, den |-> 2],
      [num |-> -1, den |-> 1] }

\* Math.floor(parseFloat(total) * multiplier)
damageValue(total, multiplier) == (total * multiplier.num) \div multiplier.den

\* The update applyDamage computes for an actor with the given hit points.
damageUpdate(hp, value) ==
    LET tmp == parseIntTemp(hp.temp)
        dt == IF value > 0 THEN mathMin(tmp, Number(value)) ELSE Number(0)
    IN  [ temp |-> minus(tmp, dt),
          value |-> clamped(minus(hp.value, minus(Number(value), dt)), 0, hp.max) ]

\* Three tokens of three actors: one without temporary hit points, one with
\* some, one whose temporary hit points field is blank.
DamageIdle ==
    /\ tokenHp = [ t1 |-> [value |-> Number(5), max |-> 10, temp |-> Number(0)],
                   t2 |-> [value |-> Number(8), max |-> 10, temp |-> Number(4)],
                   t3 |-> [value |-> Number(6), max |-> 6, temp |-> Blank] ]
    /\ controlled = {}
    /\ inFlight = [t \in {} |-> 0]
    /\ damagePromise = "none"
    /\ settled = [applied |-> {}, rejected |-> {}]
    /\ lastDamage = [value |-> 0, tokens |-> {}, before |-> tokenHp]
    /\ damageCalls = 0

DamageInit == DamageIdle

\* applyDamage(roll, multiplier): one update is computed and issued for every
\* controlled token, and the promise of all of them is returned.
ApplyDamage ==
    \E total \in RolledTotals, multiplier \in Multipliers :
        LET value == damageValue(total, multiplier)
        IN  /\ DOMAIN inFlight = {}
            /\ damageCalls < MaxDamageCalls
            /\ damageCalls' = damageCalls + 1
            /\ inFlight' = [t \in controlled |-> damageUpdate(tokenHp[t], value)]
            /\ damagePromise' = IF controlled = {} THEN "fulfilled" ELSE "pending"
            /\ settled' = [applied |-> {}, rejected |-> {}]
            /\ lastDamage' = [value |-> value, tokens |-> controlled, before |-> tokenHp]
            /\ UNCHANGED <<tokenHp, controlled, outsideDamage>>

\* Mutant: the promise waits for every answer and is then fulfilled.
promiseAll_allSettled(promise, ok, rest) ==
    IF promise # "pending" THEN promise
    ELSE IF rest = {} THEN "fulfilled" ELSE "pending"

\* Promise.all(promises) when one of the promises is answered and those of rest
\* are still open: rejected by the first rejection, fulfilled by the last
\* fulfilment.
promiseAll(promise, ok, rest) ==
    IF promise # "pending" THEN promise
    ELSE IF ~ok THEN "rejected"
    ELSE IF rest = {} THEN "fulfilled" ELSE "pending"

\* The answer to one of the updates: it is applied to the actor, or it is
\* rejected.
SettleUpdate ==
    \E t \in DOMAIN inFlight, ok \in BOOLEAN :
        LET rest == DOMAIN inFlight \ {t}
        IN  /\ tokenHp' =
                  IF ok
                  THEN [tokenHp EXCEPT ![t] = [ value |-> inFlight[t].value, max |-> tokenHp[t].max,
                                                temp |-> inFlight[t].temp ]]
                  ELSE tokenHp
            /\ inFlight' = [u \in rest |-> inFlight[u]]
            /\ settled' =
                  IF ok THEN [applied |-> settled.applied \cup {t}, rejected |-> settled.rejected]
                  ELSE [applied |-> settled.applied, rejected |-> settled.rejected \cup {t}]
            /\ damagePromise' = promiseAll(damagePromise, ok, rest)
            /\ UNCHANGED <<controlled, lastDamage, damageCalls, outsideDamage>>

\* The user selects or releases a token between two calls.
ControlToken ==
    \E t \in Tokens :
        /\ DOMAIN inFlight = {}
        /\ damageCalls < MaxDamageCalls
        /\ controlled' = IF t \in controlled THEN controlled \ {t} ELSE controlled \cup {t}
        /\ UNCHANGED <<tokenHp, inFlight, damagePromise, settled, lastDamage, damageCalls,
                       outsideDamage>>

DamageNext == ApplyDamage \/ SettleUpdate \/ ControlToken

(***************************************************************************)
(* Part IX: ItemPF2e.createDocuments and ItemPF2e._preCreate               *)
(***************************************************************************)

\* The sources items are created from, by a key that serves as the id of the
\* created item. level is system.level.value, featType is system.featType.value,
\* granted tells whether flags.pf2e.grantedBy is set, grants lists the sources a
\* GrantItem rule of the source adds to the pending items.
NewSources ==
    [ fighter |->
        [ type |-> "class", name |-> "Fighter", hp |-> 10, rules |-> << "GrantItem" >>,
          level |-> Absent, featType |-> "", granted |-> FALSE, grants |-> << "bravery" >> ],
      bravery |->
        [ type |-> "feat", name |-> "Bravery", hp |-> 0, rules |-> << "FlatModifier" >>,
          level |-> Some(3), featType |-> "classfeature", granted |-> TRUE, grants |-> <<>> ],
      aoo |->
        [ type |-> "feat", name |-> "Attack of Opportunity", hp |-> 0, rules |-> <<>>,
          level |-> Some(1), featType |-> "classfeature", granted |-> FALSE, grants |-> <<>> ],
      flex |->
        [ type |-> "feat", name |-> "Combat Flexibility", hp |-> 0,
          rules |-> << "RollOption", "FlatModifier" >>,
          level |-> Some(9), featType |-> "classfeature", granted |-> FALSE, grants |-> <<>> ],
      shield |->
        [ type |-> "feat", name |-> "Shield Block", hp |-> 0, rules |-> <<>>,
          level |-> Some(1), featType |-> "classfeature", granted |-> FALSE, grants |-> <<>> ],
      toughness |->
        [ type |-> "feat", name |-> "Toughness", hp |-> 3, rules |-> << "FlatModifier" >>,
          level |-> Some(1), featType |-> "general", granted |-> FALSE, grants |-> <<>> ],
      dodge |->
        [ type |-> "feat", name |-> "Nimble Dodge", hp |-> 0,
          rules |-> << "FlatModifier", "RollOption" >>,
          level |-> Some(1), featType |-> "class", granted |-> FALSE, grants |-> <<>> ],
      adventurer |->
        [ type |-> "kit", name |-> "Adventurer's Pack", hp |-> 0, rules |-> <<>>,
          level |-> Absent, featType |-> "", granted |-> FALSE, grants |-> <<>> ],
      strike |->
        [ type |-> "melee", name |-> "Jaws", hp |-> 0, rules |-> <<>>,
          level |-> Absent, featType |-> "", granted |-> FALSE, grants |-> <<>> ] ]

\* The batches createDocuments is called with, for a character as parent.
Batches ==
    { << "toughness" >>, << "dodge", "strike" >>, << "adventurer", "dodge" >>,
      << "fighter", "aoo", "flex", "shield" >>, << "toughness", "adventurer", "dodge" >> }

\* context.parent.allowedItemTypes of a character.
allowedItemTypes ==
    { "action", "ancestry", "background", "class", "condition", "deity", "effect", "feat",
      "heritage", "lore", "physical", "spell", "spellcastingEntry" }

\* validTypes: with "physical" allowed, the physical item types and kits as well.
validTypes ==
    IF "physical" \in allowedItemTypes
    THEN allowedItemTypes \cup PhysicalItemTypes \cup {"kit"}
    ELSE allowedItemTypes

\* Mutant: only the first source of the batch is checked.
invalidData_firstOnly(batch) ==
    SelectSeq(SubSeq(batch, 1, 1), LAMBDA key : NewSources[key].type \notin validTypes)

\* The sources of the batch whose type is not valid for the actor.
invalidData(batch) == SelectSeq(batch, LAMBDA key : NewSources[key].type \notin validTypes)

\* kits = data.filter((d) => d.type === "kit")
kitsOf(batch) == SelectSeq(batch, LAMBDA key : NewSources[key].type = "kit")

\* Mutant: the kits stay among the sources to create.
nonKitsOf_all(batch) == batch

\* nonKits = data.filter((d) => !kits.includes(d))
nonKitsOf(batch) == SelectSeq(batch, LAMBDA key : NewSources[key].type # "kit")

\* A pending source: its key and its sort value, if one was set.
Pending(key) == [key |-> key, sort |-> Absent]

\* The sources the GrantItem rules of a source push to the pending items in
\* their preCreate callback.
grantedSources(key, pending) ==
    IF \E i \in 1 .. Len(NewSources[key].rules) : NewSources[key].rules[i] = "GrantItem"
    THEN LET grants == SelectSeq(NewSources[key].grants,
                                 LAMBDA g : \A i \in 1 .. Len(pending) : pending[i].key # g)
         IN  [i \in 1 .. Len(grants) |-> Pending(grants[i])]
    ELSE <<>>

\* The ungranted class features among the pending sources.
classFeaturesOf(pending) ==
    SelectSeq(pending,
              LAMBDA i : /\ NewSources[i.key].type = "feat"
                         /\ NewSources[i.key].level.defined
                         /\ NewSources[i.key].featType = "classfeature"
                         /\ ~NewSources[i.key].granted)

\* The pre-sorting of the class features: when a class is among several pending
\* sources, feature.sort = classFeatures.indexOf(feature) * 100 * level.
preSort(pending) ==
    IF Len(pending) > 1 /\ \E i \in 1 .. Len(pending) : NewSources[pending[i].key].type = "class"
    THEN LET classFeatures == classFeaturesOf(pending)
             indexOf(feature) ==
                 (CHOOSE i \in 1 .. Len(classFeatures) :
                     /\ classFeatures[i] = feature
                     /\ \A j \in 1 .. i - 1 : classFeatures[j] # feature) - 1
         IN  [ i \in 1 .. Len(pending) |->
                 IF \E j \in 1 .. Len(classFeatures) : classFeatures[j] = pending[i]
                 THEN [ key |-> pending[i].key,
                        sort |-> Some(indexOf(pending[i]) * 100
                                      * NewSources[pending[i].key].level.n) ]
                 ELSE pending[i] ]
    ELSE pending

\* The data an item created from a source starts with.
createdData(key) ==
    [ name |-> NewSources[key].name, description |-> Str(""), hp |-> NewSources[key].hp,
      containerId |-> "" ]

NoCreation ==
    [ phase |-> "idle", data |-> <<>>, kits |-> <<>>, nonKits |-> <<>>, sources |-> <<>>,
      cursor |-> 0, kitCursor |-> 0, itemCursor |-> 0, result |-> "none", op |-> 0 ]

CreateIdle == creation = NoCreation

CreateInit == CreateIdle

\* createDocuments(data, {parent: actor}) up to its first preCreate callback: the
\* check of the types, the separation of the kits, the pre-create deletions of
\* the character.
CreateDocuments ==
    \E batch \in Batches :
        /\ creation.phase = "idle"
        /\ deletion.phase = "idle"
        /\ itemOps < MaxItemOps
        /\ \A i \in 1 .. Len(batch) : batch[i] \notin DOMAIN ownedItems
        /\ itemOps' = itemOps + 1
        /\ IF invalidData(batch) # <<>>
           THEN /\ itemEvents' =
                      << [ call |-> "ui.notifications.error", id |-> Head(invalidData(batch)),
                           rule |-> 0 ] >>
                /\ creation' =
                      [ phase |-> "idle", data |-> batch, kits |-> <<>>, nonKits |-> <<>>,
                        sources |-> <<>>, cursor |-> 0, kitCursor |-> 0, itemCursor |-> 0,
                        result |-> "empty", op |-> itemOps + 1 ]
           ELSE /\ itemEvents' = << [call |-> "preCreateDelete", id |-> "", rule |-> 0] >>
                /\ creation' =
                      [ phase |-> "callbacks", data |-> batch, kits |-> kitsOf(batch),
                        nonKits |-> [i \in 1 .. Len(nonKitsOf(batch)) |->
                                        Pending(nonKitsOf(batch)[i])],
                        sources |-> nonKitsOf(batch), cursor |-> 1, kitCursor |-> 1,
                        itemCursor |-> 0, result |-> "none", op |-> itemOps + 1 ]
        /\ UNCHANGED <<ownedItems, hpValue, deletion, lastUpdate, outsideCreate>>

\* createDocuments: the preCreate callbacks of the rules of the next source of
\* [...nonKits], the copy made before the first callback.
PreCreate ==
    LET key == creation.sources[creation.cursor]
    IN  /\ creation.phase = "callbacks"
        /\ creation.cursor <= Len(creation.sources)
        /\ itemEvents' =
              itemEvents \o ruleCalls("rule.preCreate", key, Len(NewSources[key].rules))
        /\ creation' =
              [ phase |-> "callbacks", data |-> creation.data, kits |-> creation.kits,
                nonKits |-> creation.nonKits \o grantedSources(key, creation.nonKits),
                sources |-> creation.sources, cursor |-> creation.cursor + 1,
                kitCursor |-> creation.kitCursor, itemCursor |-> 0, result |-> "none",
                op |-> creation.op ]
        /\ UNCHANGED <<ownedItems, hpValue, deletion, lastUpdate, itemOps, outsideCreate>>

\* createDocuments: the contents of the next kit are unpacked for the actor.
DumpContents ==
    /\ creation.phase = "callbacks"
    /\ creation.cursor > Len(creation.sources)
    /\ creation.kitCursor <= Len(creation.kits)
    /\ itemEvents' =
          Append(itemEvents, [ call |-> "kit.dumpContents",
                               id |-> creation.kits[creation.kitCursor], rule |-> 0 ])
    /\ creation' =
          [ phase |-> "callbacks", data |-> creation.data, kits |-> creation.kits,
            nonKits |-> creation.nonKits, sources |-> creation.sources,
            cursor |-> creation.cursor, kitCursor |-> creation.kitCursor + 1,
            itemCursor |-> 0, result |-> "none", op |-> creation.op ]
    /\ UNCHANGED <<ownedItems, hpValue, deletion, lastUpdate, itemOps, outsideCreate>>

\* createDocuments: the class features are pre-sorted and the pending sources
\* are submitted for creation.
SubmitCreate ==
    /\ creation.phase = "callbacks"
    /\ creation.cursor > Len(creation.sources)
    /\ creation.kitCursor > Len(creation.kits)
    /\ itemEvents' =
          Append(itemEvents, [call |-> "super.createDocuments", id |-> "", rule |-> 0])
    /\ creation' =
          [ phase |-> "submitted", data |-> creation.data, kits |-> creation.kits,
            nonKits |-> preSort(creation.nonKits), sources |-> creation.sources,
            cursor |-> creation.cursor, kitCursor |-> creation.kitCursor,
            itemCursor |-> 1, result |-> "none", op |-> creation.op ]
    /\ UNCHANGED <<ownedItems, hpValue, deletion, lastUpdate, itemOps, outsideCreate>>

\* ItemPF2e._preCreate of the next submitted item: the current hit points of the
\* character follow the change of the maximum the item brings.
PreCreateItem ==
    LET key == creation.nonKits[creation.itemCursor].key
        clone == [ id \in DOMAIN ownedItems \cup {key} |->
                     IF id = key THEN createdData(key) ELSE ownedItems[id] ]
        hpMaxDifference == hpMax(clone) - hpMax(ownedItems)
        adjusts == NewSources[key].type \in HitPointItemTypes /\ hpMaxDifference # 0
    IN  /\ creation.phase = "submitted"
        /\ creation.itemCursor <= Len(creation.nonKits)
        /\ hpValue' = IF adjusts THEN newHitPoints(hpValue, hpMaxDifference) ELSE hpValue
        /\ itemEvents' =
              itemEvents
              \o (IF adjusts THEN << [call |-> "actor.update", id |-> key, rule |-> 0] >>
                  ELSE <<>>)
              \o << [call |-> "super._preCreate", id |-> key, rule |-> 0] >>
        /\ creation' =
              [ phase |-> "submitted", data |-> creation.data, kits |-> creation.kits,
                nonKits |-> creation.nonKits, sources |-> creation.sources,
                cursor |-> creation.cursor, kitCursor |-> creation.kitCursor,
                itemCursor |-> creation.itemCursor + 1, result |-> "none", op |-> creation.op ]
        /\ UNCHANGED <<ownedItems, deletion, lastUpdate, itemOps, outsideCreate>>

\* The host embeds the submitted items in the actor.
CommitCreate ==
    LET keys == {creation.nonKits[i].key : i \in 1 .. Len(creation.nonKits)}
    IN  /\ creation.phase = "submitted"
        /\ creation.itemCursor > Len(creation.nonKits)
        /\ ownedItems' =
              [ id \in DOMAIN ownedItems \cup keys |->
                  IF id \in keys THEN createdData(id) ELSE ownedItems[id] ]
        /\ itemEvents' = Append(itemEvents, [call |-> "created", id |-> "", rule |-> 0])
        /\ creation' =
              [ phase |-> "idle", data |-> creation.data, kits |-> creation.kits,
                nonKits |-> creation.nonKits, sources |-> creation.sources,
                cursor |-> creation.cursor, kitCursor |-> creation.kitCursor,
                itemCursor |-> creation.itemCursor, result |-> "created", op |-> creation.op ]
        /\ UNCHANGED <<hpValue, deletion, lastUpdate, itemOps, outsideCreate>>

CreateNext ==
    \/ CreateDocuments \/ PreCreate \/ DumpContents \/ SubmitCreate \/ PreCreateItem
    \/ CommitCreate
    \/ UpdateItem

(***************************************************************************)
(* Part X: ItemPF2e._onCreate and ItemPF2e._onDelete                       *)
(***************************************************************************)

\* The users whose clients are connected.
Clients == {"gm", "player", "watcher"}

\* The owned items whose creation or deletion is announced: one with two rules,
\* one with three, one with none.
NotifiedItems == {"featA", "cls", "pack"}

\* The actors that own the item: a creature and an actor that is none.
ActorTypes == {"character", "loot"}

\* Mutant: every client takes itself for the one that made the change.
isInitiator_everyone(client, userId) == TRUE

\* game.user.id === userId
isInitiator(client, userId) == client = userId

NoBroadcast ==
    [ kind |-> "none", item |-> "", userId |-> "", actorType |-> "character",
      canModify |-> TRUE, pending |-> {} ]

NotifyIdle ==
    /\ broadcast = NoBroadcast
    /\ clientCalls = [c \in Clients |-> <<>>]
    /\ actorUpdates = <<>>
    /\ notifyOps = 0

NotifyInit == NotifyIdle

\* The host has created an owned item for a user and announces it to every client.
HostCreated ==
    \E user \in Clients, item \in NotifiedItems :
        /\ broadcast.pending = {}
        /\ notifyOps < MaxNotifyOps
        /\ notifyOps' = notifyOps + 1
        /\ broadcast' = [ kind |-> "create", item |-> item, userId |-> user,
                          actorType |-> "character", canModify |-> TRUE, pending |-> Clients ]
        /\ clientCalls' = [c \in Clients |-> <<>>]
        /\ actorUpdates' = <<>>
        /\ UNCHANGED outsideNotify

\* The host has deleted an owned item for a user and announces it to every
\* client; canModify is whether that user may update the item.
HostDeleted ==
    \E user \in Clients, item \in NotifiedItems, type \in ActorTypes, canModify \in BOOLEAN :
        /\ broadcast.pending = {}
        /\ notifyOps < MaxNotifyOps
        /\ notifyOps' = notifyOps + 1
        /\ broadcast' = [ kind |-> "delete", item |-> item, userId |-> user,
                          actorType |-> type, canModify |-> canModify, pending |-> Clients ]
        /\ clientCalls' = [c \in Clients |-> <<>>]
        /\ actorUpdates' = <<>>
        /\ UNCHANGED outsideNotify

\* _onCreate(data, options, userId) on one client.
OnCreate ==
    \E client \in broadcast.pending :
        LET item == broadcast.item
            acts == isInitiator(client, broadcast.userId)
        IN  /\ broadcast.kind = "create"
            /\ clientCalls' =
                  [ clientCalls EXCEPT ![client] =
                      << [call |-> "super._onCreate", id |-> item, rule |-> 0] >>
                      \o (IF acts
                          THEN << [call |-> "actor.reset", id |-> item, rule |-> 0] >>
                               \o ruleCalls("rule.onCreate", item, Len(ItemSources[item].rules))
                               \o << [call |-> "actor.update", id |-> item, rule |-> 0] >>
                          ELSE <<>>) ]
            /\ actorUpdates' =
                  IF acts THEN Append(actorUpdates, [client |-> client, item |-> item])
                  ELSE actorUpdates
            /\ broadcast' = [broadcast EXCEPT !.pending = broadcast.pending \ {client}]
            /\ UNCHANGED <<notifyOps, outsideNotify>>

\* _onDelete(options, userId) on one client.
OnDelete ==
    \E client \in broadcast.pending :
        LET item == broadcast.item
            acts == /\ isInitiator(client, broadcast.userId)
                    /\ broadcast.actorType = "character"
                    /\ broadcast.canModify
        IN  /\ broadcast.kind = "delete"
            /\ clientCalls' =
                  [ clientCalls EXCEPT ![client] =
                      << [call |-> "super._onDelete", id |-> item, rule |-> 0] >>
                      \o (IF acts
                          THEN ruleCalls("rule.onDelete", item, Len(ItemSources[item].rules))
                               \o << [call |-> "actor.update", id |-> item, rule |-> 0] >>
                          ELSE <<>>) ]
            /\ actorUpdates' =
                  IF acts THEN Append(actorUpdates, [client |-> client, item |-> item])
                  ELSE actorUpdates
            /\ broadcast' = [broadcast EXCEPT !.pending = broadcast.pending \ {client}]
            /\ UNCHANGED <<notifyOps, outsideNotify>>

NotifyNext == HostCreated \/ HostDeleted \/ OnCreate \/ OnDelete

\* Part II at rest, for the behaviours of Part I.
RuleIdle ==
    /\ rActor = [type |-> "character", level |-> 5, reflexRank |-> 1, acrRank |-> 0,
                 items |-> <<>>]
    /\ tree = BaseTree(rActor)
    /\ phase = "dirty"
    /\ cursor = 0
    /\ log = <<>>
    /\ synthetics = NoSynthetics
    /\ warnings = <<>>
    /\ roll = NoRoll

\* Part I at rest, for the behaviours of Part II.
PrepIdle ==
    /\ actorType = "character"
    /\ data = NewActorData
    /\ prevData = NewActorData
    /\ passes = 0
    /\ edits = 0

vars ==
    <<prepVars, ruleVars, predVars, statVars, craftVars, itemVars, optVars, damageVars,
      createVars, notifyVars>>

Init ==
    /\ PrepInit /\ RuleIdle /\ PredIdle /\ StatIdle /\ CraftIdle /\ ItemIdle /\ OptIdle
    /\ DamageIdle /\ CreateIdle /\ NotifyIdle

Next == PrepareData \/ UpdateSource

\* Data preparation of an actor (Part I).
Spec == Init /\ [][Next]_vars

\* Rule elements, preparation pass and checks of an actor (Part II).
RuleSpecInit ==
    /\ RuleInit /\ PrepIdle /\ PredIdle /\ StatIdle /\ CraftIdle /\ ItemIdle /\ OptIdle
    /\ DamageIdle /\ CreateIdle /\ NotifyIdle

RuleSpec == RuleSpecInit /\ [][RuleNext]_vars

\* The predicate evaluator (Part III).
PredSpecInit ==
    /\ PredInit /\ PrepIdle /\ RuleIdle /\ StatIdle /\ CraftIdle /\ ItemIdle /\ OptIdle
    /\ DamageIdle /\ CreateIdle /\ NotifyIdle

PredSpec == PredSpecInit /\ [][PredNext]_vars

\* Flat modifiers of a statistic (Part IV).
StatSpecInit ==
    /\ StatInit /\ PrepIdle /\ RuleIdle /\ PredIdle /\ CraftIdle /\ ItemIdle /\ OptIdle
    /\ DamageIdle /\ CreateIdle /\ NotifyIdle

StatSpec == StatSpecInit /\ [][StatNext]_vars

\* The crafting entry (Part V).
CraftSpecInit ==
    /\ CraftInit /\ PrepIdle /\ RuleIdle /\ PredIdle /\ StatIdle /\ ItemIdle /\ OptIdle
    /\ DamageIdle /\ CreateIdle /\ NotifyIdle

CraftSpec == CraftSpecInit /\ [][CraftNext]_vars

\* The crafting entry of a caller that starts from nothing (Part V).
KeptSpecInit ==
    /\ KeptInit /\ PrepIdle /\ RuleIdle /\ PredIdle /\ StatIdle /\ ItemIdle /\ OptIdle
    /\ DamageIdle /\ CreateIdle /\ NotifyIdle

KeptSpec == KeptSpecInit /\ [][CraftNext]_vars

\* Updates and deletions of owned items (Part VI).
ItemSpecInit ==
    /\ ItemInit /\ PrepIdle /\ RuleIdle /\ PredIdle /\ StatIdle /\ CraftIdle /\ OptIdle
    /\ DamageIdle /\ CreateIdle /\ NotifyIdle

ItemSpec == ItemSpecInit /\ [][ItemNext]_vars

\* The roll options of items (Part VII).
OptionSpecInit ==
    /\ OptInit /\ PrepIdle /\ RuleIdle /\ PredIdle /\ StatIdle /\ CraftIdle /\ ItemIdle
    /\ DamageIdle /\ CreateIdle /\ NotifyIdle

OptionSpec == OptionSpecInit /\ [][OptNext]_vars

\* Damage applied to the controlled tokens (Part VIII).
DamageSpecInit ==
    /\ DamageInit /\ PrepIdle /\ RuleIdle /\ PredIdle /\ StatIdle /\ CraftIdle /\ ItemIdle
    /\ OptIdle /\ CreateIdle /\ NotifyIdle

DamageSpec == DamageSpecInit /\ [][DamageNext]_vars

\* The creation of owned items, with item updates in between (Part IX).
CreateSpecInit ==
    /\ CreateInit /\ ItemInit /\ PrepIdle /\ RuleIdle /\ PredIdle /\ StatIdle /\ CraftIdle
    /\ OptIdle /\ DamageIdle /\ NotifyIdle

CreateSpec == CreateSpecInit /\ [][CreateNext]_vars

\* The clients' reactions to created and deleted items (Part X).
NotifySpecInit ==
    /\ NotifyInit /\ PrepIdle /\ RuleIdle /\ PredIdle /\ StatIdle /\ CraftIdle /\ ItemIdle
    /\ OptIdle /\ DamageIdle /\ CreateIdle

NotifySpec == NotifySpecInit /\ [][NotifyNext]_vars

(***************************************************************************)
(* Part I: properties of data preparation                                  *)
(***************************************************************************)

\* The data tree with every derived field put back to its value in a new actor.
WithoutDerived(d) ==
    [d EXCEPT
        !.abilities = [a \in DOMAIN d.abilities |-> [d.abilities[a] EXCEPT !.mod = 0]],
        !.details.xp.max = 0,
        !.details.xp.pct = 0,
        !.saves = [s \in DOMAIN d.saves |->
                      [d.saves[s] EXCEPT !.value = 0, !.breakdown = <<>>]],
        !.martial = [m \in DOMAIN d.martial |->
                        [d.martial[m] EXCEPT !.value = 0, !.breakdown = <<>>]],
        !.attributes.perception.value = 0,
        !.attributes.perception.breakdown = <<>>,
        !.attributes.spelldc.value = 0,
        !.attributes.spelldc.dc = 0,
        !.attributes.spelldc.breakdown = <<>>,
        !.skills = [k \in DOMAIN d.skills |->
                       [d.skills[k] EXCEPT !.mod = 0, !.value = 0, !.breakdown = <<>>]]]

\* C1: preparing the data a second time with the source data unchanged leaves the
\* whole data tree as the first preparation left it, and what a preparation
\* produces does not depend on the derived values it was handed: every derived
\* field is overwritten from source fields, none accumulates.
C1_PrepareIdempotent ==
    /\ passes >= 2 => data = prevData
    /\ passes >= 1 =>
        prepareData(actorType, WithoutDerived(data)) = prepareData(actorType, data)

C1_Witness ==
    /\ passes >= 2
    /\ edits >= 1
    /\ actorType = "character"
    /\ data = prevData
    /\ data.saves["reflex"].value > 0
    /\ data.skills["acr"].value > 0

\* C2: after prepareData every ability's modifier is floor((value - 10) / 2),
\* rounded toward negative infinity: 10 gives 0, 11 gives 0, 12 gives 1,
\* 9 gives -1, 18 gives 4.
C2_AbilityModifier ==
    passes >= 1 =>
        \A a \in AbilityNames :
            LET v == data.abilities[a].value
                m == data.abilities[a].mod
            IN  /\ 2 * m <= v - 10
                /\ v - 10 <= 2 * m + 1
                /\ v = 10 => m = 0
                /\ v = 11 => m = 0
                /\ v = 12 => m = 1
                /\ v = 9 => m = -1
                /\ v = 18 => m = 4

C2_Witness ==
    /\ passes >= 1
    /\ data.abilities["dex"].value = 9
    /\ data.abilities["dex"].mod = -1
    /\ data.abilities["wis"].value = 18
    /\ data.abilities["wis"].mod = 4

\* The proficiency bonus the spec states for a rank at the actor's level.
ExpectedProficiency(rank) ==
    IF rank = 0 THEN 0 ELSE rank * 2 + data.details.level.value.n

\* C3: the proficiency bonus used for every save, skill, martial proficiency,
\* perception and the spell DC of a character is 0 at rank 0 whatever the level
\* and rank * 2 + level at ranks 1 to 4 (rank 2 at level 5 gives 9).
C3_ProficiencyBonus ==
    (passes >= 1 /\ actorType = "character") =>
        /\ \A s \in SaveNames :
            /\ data.saves[s].breakdown[2] =
                   Term("proficiency", ExpectedProficiency(data.saves[s].rank))
            /\ data.saves[s].rank = 0 => data.saves[s].breakdown[2].n = 0
        /\ \A k \in SkillNames :
            data.skills[k].breakdown[2] =
                Term("proficiency", ExpectedProficiency(data.skills[k].rank))
        /\ \A m \in MartialNames :
            /\ data.martial[m].value = ExpectedProficiency(data.martial[m].rank)
            /\ data.martial[m].breakdown =
                   << Term("proficiency", ExpectedProficiency(data.martial[m].rank)) >>
        /\ data.attributes.perception.breakdown[2] =
               Term("proficiency", ExpectedProficiency(data.attributes.perception.rank))
        /\ data.attributes.spelldc.breakdown[3] =
               Term("proficiency", ExpectedProficiency(data.attributes.spelldc.rank))
        /\ \A s \in SaveNames :
            (data.saves[s].rank = 2 /\ data.details.level.value.n = 5) =>
                data.saves[s].breakdown[2].n = 9

C3_Witness ==
    /\ passes >= 1
    /\ actorType = "character"
    /\ data.details.level.value.n = 5
    /\ data.saves["reflex"].rank = 2
    /\ data.saves["reflex"].breakdown[2].n = 9
    /\ data.saves["will"].rank = 0
    /\ data.saves["will"].breakdown[2].n = 0

\* The labels a breakdown lists, in order.
Labels(terms) == [i \in 1 .. Len(terms) |-> terms[i].label]

\* C4: the value of every save and skill is the modifier of its ability +
\* proficiency bonus + item bonus, plus the armor check penalty if and only if
\* the skill carries the armor flag; the breakdown lists ability modifier,
\* proficiency, item bonus and then the armor check penalty, in that order, and
\* its numbers add up to the value.
C4_ValueAndBreakdown ==
    (passes >= 1 /\ actorType = "character") =>
        /\ \A s \in SaveNames :
            LET save == data.saves[s]
                m == data.abilities[save.ability].mod
                p == ExpectedProficiency(save.rank)
            IN  /\ save.value = m + p + save.item
                /\ save.breakdown =
                       << Term(save.ability \o " modifier", m), Term("proficiency", p),
                          Term("item bonus", save.item) >>
                /\ SumTerms(save.breakdown) = save.value
        /\ \A k \in SkillNames :
            LET skl == data.skills[k]
                m == data.abilities[skl.ability].mod
                p == ExpectedProficiency(skl.rank)
                check == data.attributes.ac.check
                acp == IF check.defined THEN check.n ELSE 0
            IN  /\ skl.value = m + p + skl.item + (IF skl.armor THEN acp ELSE 0)
                /\ Labels(skl.breakdown) =
                       << skl.ability \o " modifier", "proficiency", "item bonus" >>
                       \o (IF skl.armor THEN << "armor check penalty" >> ELSE <<>>)
                /\ skl.breakdown[1].n = m
                /\ skl.breakdown[2].n = p
                /\ skl.breakdown[3].n = skl.item
                /\ skl.armor => skl.breakdown[4].n = acp
                /\ SumTerms(skl.breakdown) = skl.value

C4_Witness ==
    /\ passes >= 1
    /\ actorType = "character"
    /\ data.skills["acr"].armor
    /\ data.skills["acr"].rank = 1
    /\ data.attributes.ac.check = [defined |-> TRUE, n |-> -2]
    /\ data.skills["acr"].value = 1
    /\ Len(data.skills["acr"].breakdown) = 4
    /\ ~data.skills["arc"].armor
    /\ Len(data.skills["arc"].breakdown) = 3

(***************************************************************************)
(* Part II: properties of the rule elements                                *)
(***************************************************************************)

LevelPath == "system.details.level.value"
ReflexPath == "system.saves.reflex.rank"
AcrPath == "system.skills.acr.rank"

\* The source of the rule a log entry is about.
RuleOf(e) == ItemCatalogue[rActor.items[e.item]].rules[e.rule]

\* The log entries about the rules of the Flames feature.
IsFlamesEntry(e) == rActor.items[e.item] = "flames"

\* The log is that of the pass under way or just made: the source data has not
\* changed since the pass began.
PassCurrent == phase \in {"rules", "ready"}

HasOracleClass == "oracle" \in Range(rActor.items)
HasLightningReflexes == "lightning" \in Range(rActor.items)

\* C5: each rule of Flames whose predicate is ["class:oracle", {gte:["self:level",
\* 13]}, "feature:lightning-reflexes"] passes if and only if the actor has the
\* oracle class, its level is at least 13 when the rule is evaluated and it has
\* the Lightning Reflexes feature; when one of the three fails the rule leaves the
\* tree as it was, and when all hold the upgrade of the Reflex rank to 3 is made.
C5_FlamesPredicate ==
    PassCurrent => \A k \in 1 .. Len(log) :
        LET e == log[k]
        IN  (IsFlamesEntry(e) /\ e.rule \in {3, 4, 5}) =>
                /\ e.passed <=>
                      /\ HasOracleClass
                      /\ e.before[LevelPath] >= 13
                      /\ HasLightningReflexes
                /\ ~e.passed => e.after = e.before
                /\ (e.passed /\ e.rule = 3) =>
                      /\ e.after[ReflexPath] >= 3
                      /\ e.after[ReflexPath] >= e.before[ReflexPath]

C5_Witness ==
    /\ phase = "ready"
    /\ \E k \in 1 .. Len(log) :
        /\ IsFlamesEntry(log[k])
        /\ log[k].rule = 3
        /\ log[k].passed
        /\ log[k].before[ReflexPath] = 2
        /\ log[k].after[ReflexPath] = 3
        /\ tree[ReflexPath] = 3

\* The greatest member of a non-empty set of numbers.
Greatest(S) == CHOOSE x \in S : \A y \in S : y <= x

\* C6: an upgrade-mode rule never decreases the field at its path: it leaves
\* max(current, value) when its predicate passes and the current value otherwise,
\* so after a pass every field holds the greatest of its source value and the
\* values of the upgrades that passed (a rank of 2 with an upgrade to 1 stays 2).
C6_UpgradeNeverDecreases ==
    /\ PassCurrent => \A k \in 1 .. Len(log) :
        LET e == log[k]
            rule == RuleOf(e)
        IN  (e.key = "ActiveEffectLike" /\ rule.mode = "upgrade" /\ rule.path \in TreePaths) =>
                /\ e.after[rule.path] >= e.before[rule.path]
                /\ e.after[rule.path] =
                      IF e.passed /\ rule.value > e.before[rule.path]
                      THEN rule.value ELSE e.before[rule.path]
                /\ \A p \in TreePaths \ {rule.path} : e.after[p] = e.before[p]
    /\ phase = "ready" =>
        \A p \in TreePaths :
            /\ tree[p] >= BaseTree(rActor)[p]
            /\ tree[p] =
                  Greatest({BaseTree(rActor)[p]}
                           \cup { RuleOf(log[k]).value :
                                    k \in { j \in 1 .. Len(log) :
                                              /\ log[j].key = "ActiveEffectLike"
                                              /\ log[j].passed
                                              /\ RuleOf(log[j]).path = p } })
    /\ (phase = "ready" /\ rActor.acrRank = 2) => tree[AcrPath] = 2

C6_Witness ==
    /\ phase = "ready"
    /\ rActor.acrRank = 2
    /\ \E k \in 1 .. Len(log) :
        /\ IsFlamesEntry(log[k])
        /\ log[k].rule = 2
        /\ log[k].passed
        /\ log[k].before[AcrPath] = 2
        /\ log[k].after[AcrPath] = 2

\* The Flames feature on an oracle, after a preparation pass.
FlamesOnOracle ==
    /\ phase = "ready"
    /\ canHostRuleElements(rActor)
    /\ HasOracleClass
    /\ "flames" \in Range(rActor.items)

\* The actor's level when the rules of Flames were evaluated.
FlamesLevel ==
    log[CHOOSE k \in 1 .. Len(log) : IsFlamesEntry(log[k])].before[LevelPath]

FlamesText ==
    "When you roll a success on a Reflex save, you get a critical success instead."

\* The success-to-critical-success note and adjustment of Flames are registered.
FlamesNoteActive ==
    \E i \in 1 .. Len(synthetics.notes) :
        /\ synthetics.notes[i].text = FlamesText
        /\ synthetics.notes[i].selector = "reflex"

FlamesAdjustmentActive ==
    \E i \in 1 .. Len(synthetics.adjustments) :
        /\ synthetics.adjustments[i].item = "flames"
        /\ synthetics.adjustments[i].selector = "reflex"

\* What a Reflex check shows of the adjustment: a rolled success comes out as a
\* critical success exactly when the adjustment is active.
FlamesOutcomeOnSuccess ==
    (roll.pc \in {"adjusted", "surfaced"} /\ roll.selector = "reflex" /\ roll.raw = 3) =>
        (roll.outcome = 4 <=> FlamesAdjustmentActive)

\* C7 as stated: at level 13 with Lightning Reflexes the Reflex rank is 3.
C7_Original ==
    FlamesOnOracle =>
        /\ FlamesLevel = 5 =>
              /\ tree[ReflexPath] >= 2
              /\ ~FlamesNoteActive /\ ~FlamesAdjustmentActive
        /\ (FlamesLevel = 13 /\ HasLightningReflexes) =>
              /\ tree[ReflexPath] = 3
              /\ FlamesNoteActive /\ FlamesAdjustmentActive
        /\ (FlamesLevel = 13 /\ ~HasLightningReflexes) =>
              /\ tree[ReflexPath] = Max(rActor.reflexRank, 2)
              /\ ~FlamesNoteActive /\ ~FlamesAdjustmentActive
        /\ FlamesOutcomeOnSuccess

\* C7 (amended): the rules of Flames on an oracle give three outcomes.  At level 5
\* the Reflex rank is at least 2 and the note and adjustment are inactive; at level
\* 13 with Lightning Reflexes the Reflex rank is 3, unless it was already higher,
\* and the note and adjustment are active; at level 13 without the feature the
\* Reflex rank stays at 2, unless it was already higher, and they are inactive.
C7_FlamesOutcomes ==
    FlamesOnOracle =>
        /\ FlamesLevel = 5 =>
              /\ tree[ReflexPath] >= 2
              /\ ~FlamesNoteActive /\ ~FlamesAdjustmentActive
        /\ (FlamesLevel = 13 /\ HasLightningReflexes) =>
              /\ tree[ReflexPath] = Max(rActor.reflexRank, 3)
              /\ FlamesNoteActive /\ FlamesAdjustmentActive
        /\ (FlamesLevel = 13 /\ ~HasLightningReflexes) =>
              /\ tree[ReflexPath] = Max(rActor.reflexRank, 2)
              /\ ~FlamesNoteActive /\ ~FlamesAdjustmentActive
        /\ FlamesOutcomeOnSuccess

C7_Witness ==
    /\ FlamesOnOracle
    /\ FlamesLevel = 13
    /\ HasLightningReflexes
    /\ rActor.reflexRank = 4
    /\ tree[ReflexPath] = 4
    /\ FlamesNoteActive
    /\ FlamesAdjustmentActive
    /\ roll.pc = "surfaced"
    /\ roll.selector = "reflex"
    /\ roll.raw = 3
    /\ roll.outcome = 4

\* C8: an adjustment shifts the outcome of a check by exactly one step, clamped
\* to critical failure .. critical success: one degree better on a success gives
\* a critical success (the adjustment of Flames), on a critical success it gives a
\* critical success, and one degree worse on a critical failure gives a critical
\* failure.
C8_AdjustmentClamped ==
    roll.pc \in {"adjusted", "surfaced"} =>
        /\ roll.outcome \in Degrees
        /\ roll.applied = "one-degree-better" =>
              roll.outcome = (IF roll.raw = 4 THEN 4 ELSE roll.raw + 1)
        /\ roll.applied = "one-degree-worse" =>
              roll.outcome = (IF roll.raw = 1 THEN 1 ELSE roll.raw - 1)
        /\ roll.applied = "none" => roll.outcome = roll.raw
        /\ roll.applied \in {"one-degree-better", "one-degree-worse", "none"}
        /\ (FlamesAdjustmentActive /\ roll.selector = "reflex" /\ roll.raw = 3) =>
              /\ roll.applied = "one-degree-better"
              /\ roll.outcome = 4

C8_Witness ==
    /\ roll.pc = "surfaced"
    /\ roll.raw = 4
    /\ roll.applied = "one-degree-better"
    /\ roll.outcome = 4
    /\ FlamesAdjustmentActive

\* C9: the adjustment of a check's degree of success is made once per check,
\* after the total has been compared with the DC and before the outcome is
\* surfaced, and never while the actor's data is being prepared.
C9_AdjustedOnceAfterCompare ==
    /\ [](/\ roll.pc \in {"none", "rolled", "compared"} => roll.adjusted = 0
          /\ roll.pc \in {"adjusted", "surfaced"} => roll.adjusted = 1
          /\ roll.pc \in {"compared", "adjusted", "surfaced"} =>
                roll.raw = (IF roll.total >= roll.dc + 10 THEN 4
                            ELSE IF roll.total >= roll.dc THEN 3
                            ELSE IF roll.total <= roll.dc - 10 THEN 1 ELSE 2)
          /\ phase # "ready" => roll.pc = "none")
    /\ [][/\ roll'.adjusted # roll.adjusted =>
                \/ roll'.pc \in {"none", "rolled"} /\ roll'.adjusted = 0
                \/ /\ roll.pc = "compared"
                   /\ roll'.pc = "adjusted"
                   /\ roll'.adjusted = 1
                   /\ phase = "ready" /\ phase' = "ready"
          /\ (roll.pc \in {"adjusted", "surfaced"} /\ roll'.pc \in {"adjusted", "surfaced"})
                => roll'.outcome = roll.outcome
          /\ (roll'.pc = "surfaced" /\ roll.pc # "surfaced") => roll.pc = "adjusted"
          /\ (phase = "rules" \/ phase' = "rules") =>
                (roll'.outcome = 0 /\ roll'.adjusted = 0)]_vars

C9_Witness ==
    /\ roll.pc = "surfaced"
    /\ roll.adjusted = 1
    /\ roll.applied = "one-degree-better"
    /\ roll.raw = 3
    /\ roll.outcome = 4

\* Position of an item in the actor's stored order (0 when absent).
PositionOf(key) ==
    IF key \in Range(rActor.items)
    THEN CHOOSE i \in 1 .. Len(rActor.items) : rActor.items[i] = key
    ELSE 0

\* The level the tree holds when the rules of Flames are reached: the source
\* level, raised to 13 by the Level Boost effect when that item is stored first.
LevelSeenByFlames ==
    IF PositionOf("boost") # 0 /\ PositionOf("boost") < PositionOf("flames")
    THEN Max(rActor.level, 13) ELSE rActor.level

\* C10: a preparation pass applies the rule elements in the items' stored order
\* and, within an item, in the order of its rules; every rule is evaluated once,
\* against the tree left by the rules before it, and is not evaluated again when a
\* later rule changes what its predicate reads.
C10_PassOrder ==
    /\ PassCurrent => \A j, k \in 1 .. Len(log) :
        j < k =>
            \/ log[j].item < log[k].item
            \/ log[j].item = log[k].item /\ log[j].rule < log[k].rule
    /\ PassCurrent => \A k \in 1 .. Len(log) :
        /\ log[k].before = (IF k = 1 THEN BaseTree(rActor) ELSE log[k - 1].after)
        /\ k = Len(log) => tree = log[k].after
    /\ (phase = "ready" /\ canHostRuleElements(rActor)) =>
        /\ \A i \in 1 .. Len(rActor.items) :
            \A r \in 1 .. Len(ItemCatalogue[rActor.items[i]].rules) :
                Cardinality({k \in 1 .. Len(log) : log[k].item = i /\ log[k].rule = r}) =
                    (IF ItemCatalogue[rActor.items[i]].rules[r].key \in RuleElementKeys
                     THEN 1 ELSE 0)
        /\ \A k \in 1 .. Len(log) :
            (IsFlamesEntry(log[k]) /\ log[k].rule = 3) =>
                (log[k].passed <=>
                    /\ HasOracleClass
                    /\ HasLightningReflexes
                    /\ LevelSeenByFlames >= 13)

C10_Witness ==
    /\ phase = "ready"
    /\ rActor.level = 5
    /\ rActor.items = << "oracle", "flames", "boost", "lightning" >>
    /\ tree[LevelPath] = 13
    /\ tree[ReflexPath] = 2
    /\ Len(log) = 6
    /\ ~log[3].passed

\* A sequence without its k-th element.
RemoveAt(seq, k) == SubSeq(seq, 1, k - 1) \o SubSeq(seq, k + 1, Len(seq))

\* The pass as it would stand now had the k-th rule element it handled been absent.
PassWithout(k) ==
    runPass(RemoveAt(SubSeq(passOrder(rActor, 1), 1, Len(log)), k), Len(log) - 1,
            rActor.items, passStart(rActor))

\* C11: a rule element whose predicate is false when it is reached is skipped:
\* it leaves the tree as it found it, and the tree, the roll options, the
\* registered notes and adjustments, the warnings and the outcome of every other
\* rule element of the pass are what they would be had the rule been absent.
C11_SkippedRuleHasNoEffect ==
    phase = "rules" => \A k \in 1 .. Len(log) :
        ~log[k].passed =>
            /\ log[k].after = log[k].before
            /\ PassWithout(k).tree = tree
            /\ RollOptions(rActor.items, PassWithout(k).tree) = RollOptions(rActor.items, tree)
            /\ PassWithout(k).synthetics = synthetics
            /\ PassWithout(k).warnings = warnings
            /\ PassWithout(k).log = RemoveAt(log, k)

C11_Witness ==
    /\ phase = "rules"
    /\ cursor > Len(passOrder(rActor, 1))
    /\ \E k \in 1 .. Len(log) :
        /\ IsFlamesEntry(log[k])
        /\ log[k].rule = 3
        /\ ~log[k].passed
        /\ log[k].before[ReflexPath] = 2
        /\ tree[ReflexPath] = 2
        /\ \E j \in k + 1 .. Len(log) :
            log[j].passed /\ log[j].key = "AdjustDegreeOfSuccess"
    /\ Len(synthetics.adjustments) = 1
    /\ synthetics.notes = <<>>

\* The rules of the actor's items that are misconfigured: their key is not in the
\* registry, or they are ActiveEffectLike rules whose path is not in the tree.
UnknownKeyRules ==
    { <<i, r>> \in (1 .. Len(rActor.items)) \X (1 .. 5) :
        /\ r <= Len(ItemCatalogue[rActor.items[i]].rules)
        /\ ItemCatalogue[rActor.items[i]].rules[r].key \notin RuleElementKeys }

InvalidPathRules ==
    { <<i, r>> \in (1 .. Len(rActor.items)) \X (1 .. 5) :
        /\ r <= Len(ItemCatalogue[rActor.items[i]].rules)
        /\ ItemCatalogue[rActor.items[i]].rules[r].key = "ActiveEffectLike"
        /\ ItemCatalogue[rActor.items[i]].rules[r].path \notin TreePaths }

\* The pass as it would stand now had the misconfigured rules not been in the items.
PassWithoutInvalid ==
    LET handled == SubSeq(passOrder(rActor, 1), 1, Len(log))
        sound == SelectSeq(handled, LAMBDA e : <<e.item, e.rule.source>> \notin InvalidPathRules)
    IN  runPass(sound, Len(sound), rActor.items, passStart(rActor))

\* C12: a rule with an unknown key or an invalid path is skipped with a warning
\* and does not stop the pass: it changes nothing, every other rule of its item
\* and of the other items is evaluated as if the rule were not there, and the
\* pass goes on to its end.
C12_MisconfiguredRuleSkipped ==
    (phase = "rules" /\ canHostRuleElements(rActor)) =>
        /\ \A w \in UnknownKeyRules :
            /\ \E n \in 1 .. Len(warnings) :
                warnings[n] = [ item |-> rActor.items[w[1]], rule |-> w[2],
                                reason |-> "unknown-key" ]
            /\ \A k \in 1 .. Len(log) : <<log[k].item, log[k].rule>> # w
        /\ \A k \in 1 .. Len(log) :
            <<log[k].item, log[k].rule>> \in InvalidPathRules =>
                /\ log[k].after = log[k].before
                /\ log[k].passed =>
                      \E n \in 1 .. Len(warnings) :
                        warnings[n] = [ item |-> rActor.items[log[k].item],
                                        rule |-> log[k].rule, reason |-> "invalid-path" ]
        /\ Len(warnings) =
              Cardinality(UnknownKeyRules)
              + Cardinality({k \in 1 .. Len(log) :
                                /\ <<log[k].item, log[k].rule>> \in InvalidPathRules
                                /\ log[k].passed})
        /\ PassWithoutInvalid.tree = tree
        /\ PassWithoutInvalid.synthetics = synthetics
        /\ cursor = Len(log) + 1
        /\ cursor <= Len(passOrder(rActor, 1)) =>
              LET next == applyRuleElement(passOrder(rActor, 1)[cursor], rActor.items,
                                           [ tree |-> tree, synthetics |-> synthetics,
                                             warnings |-> warnings, log |-> log ])
              IN  /\ DOMAIN next.tree = TreePaths
                  /\ Len(next.log) = cursor
        /\ cursor > Len(passOrder(rActor, 1)) =>
              \A i \in 1 .. Len(rActor.items) :
                \A r \in 1 .. Len(ItemCatalogue[rActor.items[i]].rules) :
                    <<i, r>> \notin UnknownKeyRules =>
                        \E k \in 1 .. Len(log) : log[k].item = i /\ log[k].rule = r

C12_Witness ==
    /\ phase = "rules"
    /\ cursor > Len(passOrder(rActor, 1))
    /\ rActor.reflexRank = 1
    /\ PositionOf("extremes") >= 1
    /\ PositionOf("extremes") < PositionOf("flames")
    /\ Len(warnings) = 2
    /\ warnings[1].reason = "unknown-key"
    /\ warnings[2].reason = "invalid-path"
    /\ tree[ReflexPath] = 2
    /\ \E n \in 1 .. Len(synthetics.adjustments) : synthetics.adjustments[n].item = "extremes"
    /\ \E k \in 1 .. Len(log) : IsFlamesEntry(log[k]) /\ log[k].passed

(***************************************************************************)
(* Part III: properties of the predicate evaluator                         *)
(***************************************************************************)

Comparators == {"gte", "gt", "lte", "lt", "eq"}

\* A top-level atom of the predicate compares a fact the bag does not hold.
ReadsUnknownFact ==
    \E i \in 1 .. Len(pPredicate) :
        pPredicate[i].op \in Comparators /\ pPredicate[i].fact \notin DOMAIN pFacts

\* C13: predicate evaluation fails closed and is pure.  A predicate one of whose
\* atoms compares a fact that is not in the fact bag is false (no error is
\* raised), every test of the same predicate on the same roll options and facts
\* gives the same boolean, and a test changes neither the roll options nor the
\* facts nor the predicate.
C13_PredicateFailsClosedAndPure ==
    /\ [](\A i \in 1 .. Len(pVerdicts) :
            /\ pVerdicts[i] \in BOOLEAN
            /\ ReadsUnknownFact => pVerdicts[i] = FALSE
            /\ pVerdicts[i] = pVerdicts[1])
    /\ [][Len(pVerdicts') > Len(pVerdicts) =>
            /\ pPredicate' = pPredicate
            /\ pOptions' = pOptions
            /\ pFacts' = pFacts]_vars

C13_Witness ==
    /\ Len(pVerdicts) = 2
    /\ pPredicate = << Has("class:oracle"), Compare("lt", "target:level", 13) >>
    /\ pOptions = {"class:oracle"}
    /\ pFacts = [f \in {"self:level"} |-> 5]
    /\ pVerdicts = << FALSE, FALSE >>

(***************************************************************************)
(* Part IV: properties of flat modifier aggregation                        *)
(***************************************************************************)

\* The bonuses and the penalties of a type among the modifiers.
BonusesOf(type) ==
    {modifiers[i].value : i \in {j \in 1 .. Len(modifiers) :
                                    modifiers[j].type = type /\ modifiers[j].value > 0}}
PenaltiesOf(type) ==
    {modifiers[i].value : i \in {j \in 1 .. Len(modifiers) :
                                    modifiers[j].type = type /\ modifiers[j].value < 0}}

\* What a type contributes: its highest bonus, if it has one, and its worst
\* penalty, if it has one.
ContributionOf(type) ==
    (IF BonusesOf(type) = {} THEN 0
     ELSE CHOOSE b \in BonusesOf(type) : \A c \in BonusesOf(type) : c <= b)
    + (IF PenaltiesOf(type) = {} THEN 0
       ELSE CHOOSE q \in PenaltiesOf(type) : \A c \in PenaltiesOf(type) : q <= c)

\* The modifier a step adds, when it adds one.
Added == modifiers'[Len(modifiers')]

\* C14: the total of a statistic's flat modifiers counts, for every type, only
\* the highest bonus and only the worst penalty of that type, and adds up what
\* the types contribute; a further bonus that is not higher than a bonus of its
\* type already there, or a further penalty that is not worse than a penalty of
\* its type already there, leaves the total as it was.
C14_FlatModifierStacking ==
    /\ [](statTotal = ContributionOf("ability") + ContributionOf("item")
                  + ContributionOf("circumstance"))
    /\ [][(/\ Len(modifiers') = Len(modifiers) + 1
           /\ \E i \in 1 .. Len(modifiers) :
                /\ modifiers[i].type = Added.type
                /\ \/ 0 < Added.value /\ Added.value <= modifiers[i].value
                   \/ modifiers[i].value <= Added.value /\ Added.value < 0)
          => statTotal' = statTotal]_vars

C14_Witness ==
    /\ modifiers = << [type |-> "item", value |-> 2], [type |-> "circumstance", value |-> -1],
                      [type |-> "item", value |-> 1] >>
    /\ statTotal = 1


(***************************************************************************)
(* Claims about the crafting entry (CraftSpec)                             *)
(***************************************************************************)

\* The least whole number of batches of the given size that hold a quantity.
BatchesFor(quantity, size) ==
    CHOOSE k \in 0 .. quantity + 1 : k * size >= quantity /\ \A j \in 0 .. k - 1 : j * size < quantity

\* The formula prepared at position i may use the field-discovery batch size.
FieldDiscoveryEligible(i) ==
    LET item == KnownFormulas[preparedFormulas[i].uuid]
    IN  /\ craftingEntry.maxFieldDiscoveryItemLevel.defined
           => item.level <= craftingEntry.maxFieldDiscoveryItemLevel.n
        /\ \/ craftingEntry.fieldDiscovery \in item.traits
           \/ item.type = "consumable" /\ craftingEntry.fieldDiscovery = item.consumableType
           \/ preparedFormulas[i].isSignatureItem = "true"

\* The batch size of the formula prepared at position i: the entry's own sizes
\* where it has them, 3 (field discovery) and 2 (ordinary) where it has not.
BatchOf(i) ==
    IF FieldDiscoveryEligible(i)
    THEN (IF craftingEntry.fieldDiscoveryBatchSize > 0
          THEN craftingEntry.fieldDiscoveryBatchSize ELSE 3)
    ELSE (IF craftingEntry.batchSize > 0 THEN craftingEntry.batchSize ELSE 2)

RECURSIVE SumOver(_, _)
SumOver(f, n) == IF n = 0 THEN 0 ELSE f[n] + SumOver(f, n - 1)

\* The quantity a prepared formula counts with: 1 when it has none or 0.
CountedQuantity(i) ==
    IF preparedFormulas[i].quantity.defined /\ preparedFormulas[i].quantity.n >= 1
    THEN preparedFormulas[i].quantity.n ELSE 1

\* C15 (as amended): the reagent cost of an alchemical entry is the sum over its
\* prepared formulas of ceil(quantity / batch), a formula with no quantity or
\* with quantity 0 counting as 1; batch is the field-discovery batch size (3 by
\* default) for an eligible formula and the ordinary one (2 by default)
\* otherwise; quantity 4 at batch size 3 costs 2; a non-alchemical entry costs 0.
C15_ReagentCost ==
    LET cost == reagentCost(craftingEntry, preparedFormulas)
        each == [i \in 1 .. Len(preparedFormulas) |-> BatchesFor(CountedQuantity(i), BatchOf(i))]
    IN  /\ craftingEntry.isAlchemical => cost = SumOver(each, Len(preparedFormulas))
        /\ ~craftingEntry.isAlchemical => cost = 0
        /\ \A i \in 1 .. Len(preparedFormulas) :
             /\ craftingEntry.isAlchemical
             /\ preparedFormulas[i].quantity = Some(4)
             /\ BatchOf(i) = 3
             => cost = 2 + SumOver([each EXCEPT ![i] = 0], Len(preparedFormulas))

\* An alchemical entry that has been operated on, with an eligible formula at the
\* default batch size 3, an ordinary one at the default 2, and a formula without
\* a positive quantity.
C15_Witness ==
    /\ craftingEntry.isAlchemical
    /\ calls > 0
    /\ \E i, j, k \in 1 .. Len(preparedFormulas) :
         /\ FieldDiscoveryEligible(i) /\ BatchOf(i) = 3
         /\ ~FieldDiscoveryEligible(j) /\ BatchOf(j) = 2
         /\ ~truthy(preparedFormulas[k].quantity)
    /\ reagentCost(craftingEntry, preparedFormulas) >= 3

\* C15 as stated: every quantity, 0 included, costs ceil(quantity / batch) (a
\* formula that has no quantity at all is one item).
C15_Original ==
    LET each ==
            [ i \in 1 .. Len(preparedFormulas) |->
                BatchesFor(IF preparedFormulas[i].quantity.defined
                           THEN preparedFormulas[i].quantity.n ELSE 1,
                           BatchOf(i)) ]
    IN  craftingEntry.isAlchemical
        => reagentCost(craftingEntry, preparedFormulas) = SumOver(each, Len(preparedFormulas))


\* The step is a call of prepareFormula.
PrepareStep == calls' = calls + 1 /\ lastCall'.op = "prepareFormula"

\* C16: preparing a formula that violates a precondition of the entry (its level
\* above the actor's or above the entry's maximum item level, every slot used,
\* required traits missing) shows a warning and changes nothing: the prepared
\* list is unchanged and no actor update is issued, so an entry with maxSlots > 0
\* that holds at most maxSlots formulas still does after the call.
C16_Original ==
    [][ PrepareStep =>
          /\ ~lastCall'.ok =>
               /\ preparedFormulas' = preparedFormulas
               /\ pendingUpdates' = pendingUpdates
               /\ Len(notifications') = Len(notifications) + 1
          /\ craftingEntry.maxSlots > 0 /\ Len(preparedFormulas) <= craftingEntry.maxSlots
               => Len(preparedFormulas') <= craftingEntry.maxSlots ]_vars


\* A persisted array holds exactly the given prepared formulas, in their order
\* and with all their fields.
Persists(array, formulas) ==
    /\ Len(array) = Len(formulas)
    /\ \A i \in 1 .. Len(formulas) :
         /\ array[i].itemUUID = formulas[i].uuid
         /\ array[i].quantity = formulas[i].quantity
         /\ array[i].expended = formulas[i].expended
         /\ array[i].isSignatureItem = formulas[i].isSignatureItem

\* C20: a pending write of the entry is never cancelled by a later one and the
\* last write wins: writes leave the queue only by being applied, oldest first;
\* each carries the entry's complete prepared list as it is when the write is
\* issued, and no operation changes that list without issuing one; so when the
\* last pending write has been applied the persisted array is the projection of
\* the entry's in-memory prepared list.
C20_LastWriteWins ==
    /\ [](pendingUpdates # <<>>
            => Persists(pendingUpdates[Len(pendingUpdates)], preparedFormulas))
    /\ [][ /\ \/ pendingUpdates' = pendingUpdates
              \/ /\ Len(pendingUpdates') = Len(pendingUpdates) + 1
                 /\ SubSeq(pendingUpdates', 1, Len(pendingUpdates)) = pendingUpdates
                 /\ Persists(pendingUpdates'[Len(pendingUpdates')], preparedFormulas')
              \/ /\ pendingUpdates # <<>>
                 /\ pendingUpdates' = Tail(pendingUpdates)
                 /\ actorPreparedFormulas' = Head(pendingUpdates)
           /\ preparedFormulas' # preparedFormulas
                => Len(pendingUpdates') = Len(pendingUpdates) + 1
           /\ actorPreparedFormulas' # actorPreparedFormulas
                => pendingUpdates # <<>> /\ actorPreparedFormulas' = Head(pendingUpdates)
           /\ pendingUpdates # <<>> /\ pendingUpdates' = <<>>
                => Persists(actorPreparedFormulas', preparedFormulas') ]_vars

\* The entry has been operated on, last by a decrease that
\* left its formula prepared, and every write has been applied.
C20_Witness ==
    /\ calls = MaxCalls
    /\ lastCall.op = "decreaseFormulaQuantity" /\ lastCall.ok
    /\ pendingUpdates = <<>>
    /\ preparedFormulas # <<>>
    /\ \E i \in 1 .. Len(preparedFormulas) : preparedFormulas[i].expended = "true"
    /\ Persists(actorPreparedFormulas, preparedFormulas)
    /\ actorPreparedFormulas \notin ActorPreparedSamples


(***************************************************************************)
(* Claims about owned items (ItemSpec) and their roll options (RuleSpec)   *)
(***************************************************************************)

\* The step is an item update that has gone through _preUpdate.
UpdateStep ==
    /\ deletion.phase = "idle"
    /\ deletion'.phase = "idle"
    /\ itemOps' = itemOps + 1
    /\ creation' = creation

\* C17: an item update that sets the description value to null is not rejected
\* and stores no null: the rule preUpdate callbacks and the host update are
\* given the empty string in its place, the item ends with the empty string as
\* its description, and every other field of the change, in what the callbacks
\* and the host are given and in what is stored, is as it was submitted.
C17_NullDescriptionCoerced ==
    /\ [](\A id \in DOMAIN ownedItems : ~ownedItems[id].description.null)
    /\ [][ UpdateStep =>
             LET id == lastUpdate'.id
                 submitted == lastUpdate'.submitted
                 given == {i \in 1 .. Len(itemEvents') :
                             itemEvents'[i].call \in {"rule.preUpdate", "super._preUpdate"}}
             IN  /\ itemEvents'[Len(itemEvents')].call = "super._preUpdate"
                 /\ Cardinality(given) = Len(ItemSources[id].rules) + 1
                 /\ \A i \in given :
                      /\ itemEvents'[i].changed.name = submitted.name
                      /\ itemEvents'[i].changed.hp = submitted.hp
                      /\ itemEvents'[i].changed.description =
                           IF submitted.description = Set(Null) THEN Set(Str(""))
                           ELSE submitted.description
                 /\ submitted.description = Set(Null) => ownedItems'[id].description = Str("")
                 /\ submitted.description.defined /\ submitted.description.value # Null
                      => ownedItems'[id].description = submitted.description.value
                 /\ ~submitted.description.defined
                      => ownedItems'[id].description = ownedItems[id].description
                 /\ ownedItems'[id].name =
                      IF submitted.name.defined THEN submitted.name.value ELSE ownedItems[id].name
                 /\ ownedItems'[id].hp =
                      IF submitted.hp.defined THEN submitted.hp.value ELSE ownedItems[id].hp ]_vars

\* An update of the class item that set its name and a null description: its
\* rules' callbacks have run and the item has the new name and an empty
\* description.
C17_Witness ==
    /\ lastUpdate.id = "cls"
    /\ lastUpdate.submitted.description = Set(Null)
    /\ lastUpdate.submitted.name = Set("Renamed")
    /\ "cls" \in DOMAIN ownedItems
    /\ ownedItems["cls"].description = Str("")
    /\ ownedItems["cls"].name = "Renamed"
    /\ \E i \in 1 .. Len(itemEvents) : itemEvents[i].call = "rule.preUpdate"

\* The slug an item's options are built from: its own, or its sluggified name.
SlugOf(item) == IF item.slug # "" THEN item.slug ELSE sluggify(item.name)

\* C18: for every item, getRollOptions with the default prefix (the item's type)
\* contains <type>:<slug>, the slug falling back to the sluggified name,
\* <type>:trait:<t> for each of its traits and <type>:level:<n> when it has a
\* level; the options collected for an actor contain feature:<slug> for every
\* class feature it holds; a call leaves the actor's items as they were, and a
\* call for the item and prefix of the call before it returns the same options.
C18_RollOptionsContent ==
    /\ [](optCall.prefix = "default" =>
            LET item == ItemCatalogue[optCall.item]
                options == Range(optCall.options)
            IN  /\ (item.type \o ":" \o SlugOf(item)) \in options
                /\ \A i \in 1 .. Len(item.traits) :
                     (item.type \o ":trait:" \o item.traits[i]) \in options
                /\ item.level.present
                     => (item.type \o ":level:" \o ToString(item.level.value)) \in options)
    /\ [](\A i \in 1 .. Len(optCollected.items) :
            LET item == ItemCatalogue[optCollected.items[i]]
            IN  isFeature(item) => ("feature:" \o SlugOf(item)) \in optCollected.options)
    /\ [][ optCalls' = optCalls + 1 =>
             /\ optItems' = optItems
             /\ optCall # NoCall /\ optCall'.item = optCall.item
                                  /\ optCall'.prefix = optCall.prefix
                  => optCall'.options = optCall.options
             /\ optCollected # NoCollection /\ optCollected'.items = optCollected.items
                  => optCollected'.options = optCollected.options ]_vars

\* The options of the class feature whose slug is null and that has a trait and
\* a level have been asked for with the default prefix, and those of an actor
\* holding it and its class have been collected.
C18_Witness ==
    /\ optCall.item = "flames"
    /\ optCall.prefix = "default"
    /\ {"feat:flames", "feat:trait:oracle", "feat:level:1"} \subseteq Range(optCall.options)
    /\ {"oracle", "flames"} \subseteq Range(optCollected.items)
    /\ {"feature:flames", "class:oracle"} \subseteq optCollected.options

\* The onDelete policy an item was granted with: the one its grantedBy flag
\* names or, when it names none, "detach" for a physical item and "cascade" for
\* any other.
GrantPolicy(e) ==
    IF ItemSources[e].grantedBy.onDelete # "" THEN ItemSources[e].grantedBy.onDelete
    ELSE IF ItemSources[e].type \in PhysicalItemTypes THEN "detach" ELSE "cascade"

\* The items an item granted with a policy.
GrantedWith(g, policy) ==
    {e \in ItemIds : ItemSources[e].grantedBy.id = g /\ GrantPolicy(e) = policy}

\* The step is the removal that ends a deletion.
RemovalStep == deletion.phase = "preDelete" /\ deletion'.phase = "idle"

\* C19: when a deletion removes a grantor from the actor, every item the grantor
\* granted with the policy cascade that the actor holds is removed in the same
\* deletion, and every item it granted with the policy detach stays on the actor
\* (unless the deletion was requested for that item too).
C19_GrantDeletion ==
    [][ RemovalStep =>
          LET removed == DOMAIN ownedItems \ DOMAIN ownedItems'
          IN  \A g \in removed :
                /\ \A e \in GrantedWith(g, "cascade") :
                     e \in DOMAIN ownedItems => e \in removed
                /\ \A e \in GrantedWith(g, "detach") :
                     /\ e \in DOMAIN ownedItems
                     /\ \A i \in 1 .. Len(deletion.requested) : deletion.requested[i] # e
                     => e \in DOMAIN ownedItems' ]_vars

\* The class has been deleted, and with it the feat it granted by cascade and the
\* feat that one granted; the feat and the gear it granted with detach remain.
C19_Witness ==
    /\ deletion.phase = "idle"
    /\ deletion.requested = << "cls" >>
    /\ deletion.pendingItems = << "cls", "featA", "featC" >>
    /\ DOMAIN ownedItems = {"featB", "gear", "pack"}


\* The requested ids that the actor holds, each once, in the order requested.
RequestedItems(requested, held) ==
    LET first == {i \in 1 .. Len(requested) :
                    /\ requested[i] \in held
                    /\ \A j \in 1 .. i - 1 : requested[j] # requested[i]}
        nth[k \in 0 .. Len(requested)] ==
            IF k = 0 THEN <<>>
            ELSE IF k \in first THEN Append(nth[k - 1], requested[k]) ELSE nth[k - 1]
    IN  nth[Len(requested)]

\* The calls of a deletion whose callbacks have run for the first n pending
\* items: the ejections of the containers among the requested items, then the
\* preDelete callbacks item by item, rule by rule.
RECURSIVE PreDeleteCalls(_, _)
PreDeleteCalls(pending, n) ==
    IF n = 0 THEN <<>>
    ELSE PreDeleteCalls(pending, n - 1)
         \o [r \in 1 .. Len(ItemSources[pending[n]].rules) |->
               [call |-> "rule.preDelete", id |-> pending[n], rule |-> r]]

Ejections(items) ==
    SelectSeq([i \in 1 .. Len(items) |-> [call |-> "ejectContents", id |-> items[i], rule |-> 0]],
              LAMBDA e : ItemSources[e.id].type = "backpack")

C24_SubmittedIds ==
    [][RemovalStep =>
          LET ids == deletion'.pendingItems
              submitted == {ids[i] : i \in 1 .. Len(ids)}
              pending == {deletion.pendingItems[i] : i \in 1 .. Len(deletion.pendingItems)}
          IN  /\ \A i, j \in 1 .. Len(ids) : ids[i] = ids[j] => i = j
              /\ submitted = pending \cap DOMAIN ownedItems
              /\ DOMAIN ownedItems' = DOMAIN ownedItems \ submitted]_vars

\* A request naming one feat twice has been submitted as one id, and a request
\* for an item that another client removed meanwhile has been submitted without it.
C24_Witness ==
    /\ deletion.phase = "idle"
    /\ \/ /\ deletion.requested = << "featB", "featB" >>
          /\ deletion.pendingItems = << "featB" >>
       \/ /\ deletion.requested = << "ghost", "featC" >>
          /\ deletion.pendingItems = << "featC" >>
    /\ itemEvents # <<>>
    /\ itemEvents[Len(itemEvents)].call = "super.deleteDocuments"


\* The onDelete values of a grant record: "" stands for a missing policy.
GrantPolicies == {"", "detach", "cascade", "restrict"}

\* A physical and a non-physical item with every shape of grant flags.
GrantSamples ==
    { [ type |-> t, name |-> "Sample", description |-> Str(""), hp |-> 0, containerId |-> "",
        rules |-> <<>>, grantedBy |-> g, itemGrants |-> gs ] :
        t \in {"feat", "equipment"},
        g \in {NoGranter} \cup {[id |-> "cls", onDelete |-> p] : p \in GrantPolicies},
        gs \in {<<>>}
               \cup {<<[id |-> "featA", onDelete |-> p]>> : p \in GrantPolicies}
               \cup {<< [id |-> "featA", onDelete |-> "cascade"],
                        [id |-> "gear", onDelete |-> ""] >>} }

Damaged(t) ==
    /\ t \in DOMAIN inFlight
    /\ t \notin settled.applied
    /\ t \in settled'.applied

\* C26 (as stated): for every controlled token the hit points applyDamage writes
\* are in range: the new hp.value is a number of [0, hp.max]; a positive value
\* takes min(temp, value) from the temporary hit points, which stay at 0 or more,
\* and the rest from hp.value; a value of 0 or less leaves the temporary hit
\* points as they were.
C26_Original ==
    [][\A t \in Tokens :
          Damaged(t) =>
             LET before == tokenHp[t]
                 after == tokenHp'[t]
                 value == lastDamage.value
             IN  /\ after.value.kind = "num"
                 /\ after.value.n \in 0 .. before.max
                 /\ value > 0 =>
                      /\ after.temp.kind = "num"
                      /\ after.temp.n >= 0
                      /\ before.temp.kind = "num" =>
                           /\ after.temp.n = before.temp.n - Min(before.temp.n, value)
                           /\ after.value.n =
                                Max(0, before.value.n - (value - Min(before.temp.n, value)))
                 /\ value <= 0 => after.temp = before.temp]_vars

\* Promise.all of the updates of the latest call, from the answers so far.
AnswersSoFar ==
    IF settled.rejected # {} THEN "rejected"
    ELSE IF DOMAIN inFlight = {} THEN "fulfilled" ELSE "pending"

\* C27: applyDamage is best effort: it issues one update for every controlled
\* token before any answer is awaited; when the update of a token is rejected the
\* updates of the other tokens are applied all the same and none is undone, and
\* the promise applyDamage returned is rejected.
C27_BestEffort ==
    /\ [](damageCalls > 0 =>
            /\ damagePromise = AnswersSoFar
            /\ DOMAIN inFlight \cup settled.applied \cup settled.rejected = lastDamage.tokens
            /\ \A t \in settled.applied :
                 /\ tokenHp[t].value = damageUpdate(lastDamage.before[t], lastDamage.value).value
                 /\ tokenHp[t].temp = damageUpdate(lastDamage.before[t], lastDamage.value).temp
            /\ \A t \in Tokens \ settled.applied : tokenHp[t] = lastDamage.before[t])
    /\ [][ /\ damageCalls' = damageCalls + 1 =>
                /\ DOMAIN inFlight' = controlled
                /\ settled' = [applied |-> {}, rejected |-> {}]
                /\ tokenHp' = tokenHp
           /\ settled'.rejected # settled.rejected /\ damageCalls' = damageCalls =>
                /\ tokenHp' = tokenHp
                /\ damagePromise' = "rejected"
                /\ \A t \in DOMAIN inFlight' : inFlight'[t] = inFlight[t]
           /\ damagePromise = "rejected" /\ damageCalls' = damageCalls =>
                damagePromise' = "rejected" ]_vars

\* Of the updates of one call the first was rejected and a later one was applied:
\* the promise is rejected and the actor of the other token has its new hit points.
C27_Witness ==
    /\ damagePromise = "rejected"
    /\ DOMAIN inFlight = {}
    /\ settled.rejected = {"t1"}
    /\ settled.applied = {"t2"}
    /\ lastDamage.value = 7
    /\ tokenHp["t1"] = lastDamage.before["t1"]
    /\ tokenHp["t2"].temp = Number(0)
    /\ tokenHp["t2"].value = Number(5)


\* createDocuments is called: the step from rest that takes up a batch.
CreateCall ==
    /\ creation.phase = "idle"
    /\ itemOps' = itemOps + 1
    /\ creation'.op = itemOps'

\* C21: createDocuments with a parent actor is all or nothing on the item types:
\* when a source of the batch has a type that is not allowed for the actor, an
\* error is notified, the result is empty, no item of the batch is created, and no
\* pre-create deletion, preCreate callback or kit unpacking has run.
C21_AllOrNothing ==
    [][CreateCall /\ (\E i \in 1 .. Len(creation'.data) :
                         NewSources[creation'.data[i]].type \notin validTypes)
         => /\ creation'.result = "empty"
            /\ creation'.phase = "idle"
            /\ Len(itemEvents') = 1
            /\ itemEvents'[1].call = "ui.notifications.error"
            /\ NewSources[itemEvents'[1].id].type \notin validTypes
            /\ ownedItems' = ownedItems
            /\ hpValue' = hpValue]_vars

\* The batch of a feat and an attack of a non-player character was refused: one
\* error, an empty result, and the feat was not created.
C21_Witness ==
    /\ creation.data = << "dodge", "strike" >>
    /\ creation.result = "empty"
    /\ creation.phase = "idle"
    /\ itemEvents = << [call |-> "ui.notifications.error", id |-> "strike", rule |-> 0] >>
    /\ "dodge" \notin DOMAIN ownedItems

\* The preCreate callbacks of the first n of the given sources, source by source
\* and rule by rule.
RECURSIVE PreCreateCalls(_, _)
PreCreateCalls(sources, n) ==
    IF n = 0 THEN <<>>
    ELSE PreCreateCalls(sources, n - 1)
         \o [r \in 1 .. Len(NewSources[sources[n]].rules) |->
               [call |-> "rule.preCreate", id |-> sources[n], rule |-> r]]

\* The calls of a creation before its submission, from its progress.
CallsBeforeSubmission ==
    << [call |-> "preCreateDelete", id |-> "", rule |-> 0] >>
    \o PreCreateCalls(creation.sources, creation.cursor - 1)
    \o [k \in 1 .. creation.kitCursor - 1 |->
          [call |-> "kit.dumpContents", id |-> creation.kits[k], rule |-> 0]]

\* C22: createDocuments with a character as parent runs its steps in a fixed
\* order: the pre-create deletions, then the preCreate callback of every rule of
\* every non-kit source of the batch, in batch order and rule order, then the
\* unpacking of every kit, and only then the submission; no kit is among the
\* submitted sources, and no kit becomes an item of the actor.
C22_CreationOrder ==
    /\ [](creation.phase = "callbacks" =>
            /\ creation.sources =
                 SelectSeq(creation.data, LAMBDA key : NewSources[key].type # "kit")
            /\ creation.kits =
                 SelectSeq(creation.data, LAMBDA key : NewSources[key].type = "kit")
            /\ creation.cursor \in 1 .. Len(creation.sources) + 1
            /\ creation.kitCursor \in 1 .. Len(creation.kits) + 1
            /\ creation.kitCursor > 1 => creation.cursor = Len(creation.sources) + 1
            /\ itemEvents = CallsBeforeSubmission)
    /\ [](\A id \in DOMAIN ownedItems \cap DOMAIN NewSources : NewSources[id].type # "kit")
    /\ [][ /\ creation.phase = "callbacks" /\ creation'.phase = "submitted" =>
                /\ creation.cursor = Len(creation.sources) + 1
                /\ creation.kitCursor = Len(creation.kits) + 1
                /\ itemEvents' =
                     Append(CallsBeforeSubmission,
                            [call |-> "super.createDocuments", id |-> "", rule |-> 0])
                /\ \A i \in 1 .. Len(creation'.nonKits) :
                     NewSources[creation'.nonKits[i].key].type # "kit"
                /\ \A i \in 1 .. Len(creation.sources) :
                     \E j \in 1 .. Len(creation'.nonKits) :
                        creation'.nonKits[j].key = creation.sources[i]
           /\ DOMAIN ownedItems' # DOMAIN ownedItems =>
                /\ creation.phase = "submitted"
                /\ DOMAIN ownedItems' =
                     DOMAIN ownedItems
                     \cup {creation.nonKits[i].key : i \in 1 .. Len(creation.nonKits)} ]_vars

\* A batch of a feat, a kit and another feat has been created: the callbacks of
\* the two feats ran before the kit was unpacked, the submission came last, and
\* the actor has the feats and not the kit.
C22_Witness ==
    /\ creation.data = << "toughness", "adventurer", "dodge" >>
    /\ creation.result = "created"
    /\ Len(itemEvents) >= 6
    /\ SubSeq(itemEvents, 1, 6) =
          << [call |-> "preCreateDelete", id |-> "", rule |-> 0],
             [call |-> "rule.preCreate", id |-> "toughness", rule |-> 1],
             [call |-> "rule.preCreate", id |-> "dodge", rule |-> 1],
             [call |-> "rule.preCreate", id |-> "dodge", rule |-> 2],
             [call |-> "kit.dumpContents", id |-> "adventurer", rule |-> 0],
             [call |-> "super.createDocuments", id |-> "", rule |-> 0] >>
    /\ {"toughness", "dodge"} \subseteq DOMAIN ownedItems
    /\ "adventurer" \notin DOMAIN ownedItems


\* ItemPF2e._preCreate runs for the next submitted item.
PreCreateStep ==
    /\ creation.phase = "submitted"
    /\ creation'.phase = "submitted"
    /\ creation'.itemCursor = creation.itemCursor + 1

\* The calls an operation added to the call log in a step.
AddedCalls == SubSeq(itemEvents', Len(itemEvents) + 1, Len(itemEvents'))

\* C29: when an ancestry, background, class, feat or heritage item is created on
\* a character or updated, and the change alters the maximum hit points of the
\* actor by d, the current hit points are updated to current + d before the change
\* of the item is committed if d is not 0, and no update of the hit points is
\* issued if d is 0.
C29_HitPointsFollow ==
    [][ /\ PreCreateStep =>
             LET key == creation.nonKits[creation.itemCursor].key
                 with == [ id \in DOMAIN ownedItems \cup {key} |->
                             IF id = key
                             THEN [ name |-> NewSources[key].name, description |-> Str(""),
                                    hp |-> NewSources[key].hp, containerId |-> "" ]
                             ELSE ownedItems[id] ]
                 d == hpMax(with) - hpMax(ownedItems)
             IN  NewSources[key].type \in HitPointItemTypes =>
                    /\ key \notin DOMAIN ownedItems'
                    /\ d # 0 =>
                         /\ hpValue' = hpValue + d
                         /\ AddedCalls = << [call |-> "actor.update", id |-> key, rule |-> 0],
                                            [call |-> "super._preCreate", id |-> key, rule |-> 0] >>
                    /\ d = 0 =>
                         /\ hpValue' = hpValue
                         /\ AddedCalls = << [call |-> "super._preCreate", id |-> key, rule |-> 0] >>
        /\ UpdateStep =>
             LET id == lastUpdate'.id
                 d == hpMax(ownedItems') - hpMax(ownedItems)
                 last == Len(itemEvents')
             IN  ItemSources[id].type \in HitPointItemTypes =>
                    /\ itemEvents'[last].call = "super._preUpdate"
                    /\ d # 0 =>
                         /\ hpValue' = hpValue + d
                         /\ itemEvents'[1].call = "actor.update"
                         /\ \A i \in 2 .. last : itemEvents'[i].call # "actor.update"
                    /\ d = 0 =>
                         /\ hpValue' = hpValue
                         /\ \A i \in 1 .. last : itemEvents'[i].call # "actor.update" ]_vars

\* A feat that raises the maximum by 3 was created and the class was then updated
\* to give 2 hit points more: the current hit points rose by 5 with the maximum.
C29_Witness ==
    /\ creation.result = "created"
    /\ creation.data = << "toughness" >>
    /\ "toughness" \in DOMAIN ownedItems
    /\ lastUpdate.id = "cls"
    /\ ownedItems["cls"].hp = ItemSources["cls"].hp + 2
    /\ hpValue = hpMax([id \in ItemIds |-> ownedData(id)]) + 5
    /\ hpValue = hpMax(ownedItems)
    /\ itemEvents[1].call = "actor.update"

\* The source is a class feature with a level that no item granted.
UngrantedFeature(key) ==
    /\ NewSources[key].type = "feat"
    /\ NewSources[key].featType = "classfeature"
    /\ NewSources[key].level.defined
    /\ ~NewSources[key].granted

\* C30 (as stated): when several items with a class among them are created at
\* once, the ungranted class features of the batch are pre-sorted in their order
\* in the batch: of any two of them the earlier has the smaller sort value.
C30_Original ==
    creation.phase = "submitted"
    /\ Len(creation.nonKits) > 1
    /\ (\E i \in 1 .. Len(creation.nonKits) : NewSources[creation.nonKits[i].key].type = "class")
    => \A i, j \in 1 .. Len(creation.nonKits) :
          i < j /\ UngrantedFeature(creation.nonKits[i].key)
                /\ UngrantedFeature(creation.nonKits[j].key) =>
             /\ creation.nonKits[i].sort.defined
             /\ creation.nonKits[j].sort.defined
             /\ creation.nonKits[i].sort.n < creation.nonKits[j].sort.n


\* The calls of the rule callbacks of an item, in rule order.
CallbacksInOrder(call, item) ==
    [r \in 1 .. Len(ItemSources[item].rules) |-> [call |-> call, id |-> item, rule |-> r]]

\* C25: with several clients connected, the onCreate (onDelete) callbacks of the
\* rules of an owned item are run, and the actor update that results is
\* submitted, only by the client of the user who made the creation (deletion):
\* one actor update is issued for a created item, and on that client the actor
\* is reset first, the callbacks run in rule order, and the one update follows.
C25_InitiatorOnly ==
    [](broadcast.kind # "none" =>
         LET item == broadcast.item
             answered == Clients \ broadcast.pending
             super == IF broadcast.kind = "create" THEN "super._onCreate" ELSE "super._onDelete"
         IN  /\ \A c \in answered \ {broadcast.userId} :
                  clientCalls[c] = << [call |-> super, id |-> item, rule |-> 0] >>
             /\ \A c \in broadcast.pending : clientCalls[c] = <<>>
             /\ \A i \in 1 .. Len(actorUpdates) :
                  actorUpdates[i] = [client |-> broadcast.userId, item |-> item]
             /\ Len(actorUpdates) <= 1
             /\ broadcast.userId \in answered /\ broadcast.kind = "create" =>
                  /\ Len(actorUpdates) = 1
                  /\ clientCalls[broadcast.userId] =
                       << [call |-> "super._onCreate", id |-> item, rule |-> 0],
                          [call |-> "actor.reset", id |-> item, rule |-> 0] >>
                       \o CallbacksInOrder("rule.onCreate", item)
                       \o << [call |-> "actor.update", id |-> item, rule |-> 0] >>
             /\ broadcast.userId \in answered /\ broadcast.kind = "delete" =>
                  \/ /\ Len(actorUpdates) = 1
                     /\ clientCalls[broadcast.userId] =
                          << [call |-> "super._onDelete", id |-> item, rule |-> 0] >>
                          \o CallbacksInOrder("rule.onDelete", item)
                          \o << [call |-> "actor.update", id |-> item, rule |-> 0] >>
                  \/ /\ Len(actorUpdates) = 0
                     /\ ~(broadcast.actorType = "character" /\ broadcast.canModify)
                     /\ clientCalls[broadcast.userId] =
                          << [call |-> "super._onDelete", id |-> item, rule |-> 0] >>)

\* Every client has handled the creation of a feat with two rules that the
\* player made: the player's client reset the actor, ran the two callbacks and
\* submitted the one update; the other clients ran none.
C25_Witness ==
    /\ broadcast.kind = "create"
    /\ broadcast.item = "featA"
    /\ broadcast.userId = "player"
    /\ broadcast.pending = {}
    /\ actorUpdates = << [client |-> "player", item |-> "featA"] >>
    /\ Len(clientCalls["player"]) = 5
    /\ clientCalls["player"][2].call = "actor.reset"
    /\ clientCalls["player"][3] = [call |-> "rule.onCreate", id |-> "featA", rule |-> 1]
    /\ clientCalls["player"][5].call = "actor.update"
    /\ Len(clientCalls["gm"]) = 1
    /\ Len(clientCalls["watcher"]) = 1

(***************************************************************************)
(* C31: an operation that addresses a position is guarded                  *)
(***************************************************************************)

\* The operations that take an index and an itemUUID.
IndexedOps ==
    { "unprepareFormula", "increaseFormulaQuantity", "decreaseFormulaQuantity",
      "setFormulaQuantity", "toggleFormulaExpended", "toggleSignatureItem" }

IndexedStep == calls' = calls + 1 /\ lastCall'.op \in IndexedOps

\* The position the call names holds a prepared formula, and that formula is the
\* one the call names.
HoldsNamedFormula ==
    /\ lastCall'.index \in 1 .. Len(preparedFormulas)
    /\ preparedFormulas[lastCall'.index].uuid = lastCall'.itemUUID

\* C31: every index-addressed operation (unprepareFormula,
\* increaseFormulaQuantity, decreaseFormulaQuantity, setFormulaQuantity,
\* toggleFormulaExpended, toggleSignatureItem) called with an index that holds no
\* prepared formula, or with an itemUUID other than that of the formula at the
\* index, leaves the prepared list unchanged and issues no actor update; a call
\* that passes the guard issues exactly one actor update.
C31_GuardedCalls ==
    [][ IndexedStep =>
          IF HoldsNamedFormula
          THEN /\ Len(pendingUpdates') = Len(pendingUpdates) + 1
               /\ SubSeq(pendingUpdates', 1, Len(pendingUpdates)) = pendingUpdates
          ELSE preparedFormulas' = preparedFormulas /\ pendingUpdates' = pendingUpdates ]_vars

\* A call refused for its itemUUID, at a position that holds a formula, after a
\* call that was accepted and whose update is pending.
C31_Witness ==
    /\ calls = 2
    /\ lastCall.op \in IndexedOps /\ ~lastCall.ok
    /\ lastCall.index <= Len(preparedFormulas)
    /\ preparedFormulas[lastCall.index].uuid # lastCall.itemUUID
    /\ Len(pendingUpdates) = 1

(***************************************************************************)
(* C35: loading and persisting round-trip                                  *)
(***************************************************************************)

\* A persisted array restricted to the records of known formulas, in its order.
RestrictedToKnown(persisted) ==
    SelectSeq(persisted, LAMBDA record : record.itemUUID \in FormulaIds)

\* The entry as the constructor left it.
Constructed == calls = 0 /\ lastCall.op = "constructor" /\ pendingUpdates = <<>>

\* C35: loading and persisting a crafting entry round-trips.  The prepared list
\* the constructor builds is the persisted actorPreparedFormulas array restricted,
\* in the same order, to the records whose itemUUID is a known formula, each with
\* its quantity, expended and signature flag; written back with no operation in
\* between, the array persisted is exactly that restricted array, which is the
\* persisted one when every itemUUID is known.
C35_RoundTrip ==
    /\ [](Constructed =>
            LET restricted == RestrictedToKnown(actorPreparedFormulas)
            IN  /\ Len(preparedFormulas) = Len(restricted)
                /\ \A i \in 1 .. Len(restricted) :
                     /\ preparedFormulas[i].uuid = restricted[i].itemUUID
                     /\ preparedFormulas[i].quantity = restricted[i].quantity
                     /\ preparedFormulas[i].expended = restricted[i].expended
                     /\ preparedFormulas[i].isSignatureItem = restricted[i].isSignatureItem)
    /\ [][ /\ Constructed /\ calls' = 1 /\ lastCall'.op = "updateActorEntryFormulas"
             => /\ pendingUpdates' = << RestrictedToKnown(actorPreparedFormulas) >>
                /\ (\A i \in 1 .. Len(actorPreparedFormulas) :
                       actorPreparedFormulas[i].itemUUID \in FormulaIds)
                   => pendingUpdates' = << actorPreparedFormulas >>
           /\ /\ calls = 1 /\ lastCall.op = "updateActorEntryFormulas"
              /\ actorPreparedFormulas' # actorPreparedFormulas
             => actorPreparedFormulas' = RestrictedToKnown(actorPreparedFormulas) ]_vars

\* An entry loaded from an array with a record of an unknown formula, written
\* back: the record of the known formula is persisted alone, as it was.
C35_Witness ==
    /\ calls = 1 /\ lastCall.op = "updateActorEntryFormulas" /\ pendingUpdates = <<>>
    /\ actorPreparedFormulas =
          << [ itemUUID |-> "fire", quantity |-> Some(2), expended |-> "true",
               isSignatureItem |-> "false" ] >>
    /\ projection(preparedFormulas) = actorPreparedFormulas

(***************************************************************************)
(* C33: an alchemical entry prepares a formula once                        *)
(***************************************************************************)

\* No two positions hold formulas of the same uuid.
NoDuplicates(formulas) ==
    \A i, j \in 1 .. Len(formulas) : formulas[i].uuid = formulas[j].uuid => i = j

\* The positions of a list that hold the formula a call names.
PositionsOf(formulas, uuid) == {i \in 1 .. Len(formulas) : formulas[i].uuid = uuid}

\* What prepareFormula does in an alchemical entry without duplicates, a quantity
\* counting as count gives: the formula already prepared has its quantity raised
\* by 1 and the list keeps its length; a new one is appended with quantity 1.
PreparesOnce(count(_)) ==
    PrepareStep /\ craftingEntry.isAlchemical /\ NoDuplicates(preparedFormulas) =>
        LET at == PositionsOf(preparedFormulas, lastCall'.itemUUID)
        IN  IF at # {}
            THEN /\ Len(preparedFormulas') = Len(preparedFormulas)
                 /\ \A i \in at :
                      /\ preparedFormulas'[i].uuid = lastCall'.itemUUID
                      /\ preparedFormulas'[i].quantity =
                            Some(count(preparedFormulas[i].quantity) + 1)
            ELSE /\ Len(preparedFormulas') = Len(preparedFormulas) + 1
                 /\ SubSeq(preparedFormulas', 1, Len(preparedFormulas)) = preparedFormulas
                 /\ preparedFormulas'[Len(preparedFormulas')].uuid = lastCall'.itemUUID
                 /\ preparedFormulas'[Len(preparedFormulas')].quantity = Some(1)

\* An absent quantity counts as 1.
AbsentAsOne(quantity) == IF quantity.defined THEN quantity.n ELSE 1

\* An absent quantity and a quantity of 0 count as 1.
AbsentOrZeroAsOne(quantity) == IF quantity.defined /\ quantity.n # 0 THEN quantity.n ELSE 1

\* No operation gives an alchemical entry without duplicates a duplicate.
KeepsNoDuplicates ==
    craftingEntry.isAlchemical /\ NoDuplicates(preparedFormulas)
        => NoDuplicates(preparedFormulas')

\* C33, as stated: in an alchemical entry whose prepared list starts without two
\* formulas of the same uuid no sequence of operations produces two; preparing
\* an already-prepared formula raises its quantity by exactly 1, an absent
\* quantity counting as 1, and keeps the list's length; preparing a new formula
\* appends it with quantity 1.
C33_Original == [][KeepsNoDuplicates /\ PreparesOnce(AbsentAsOne)]_vars

\* C33, amended: the same, an absent quantity or a quantity of 0 counting as 1.
C33_PreparesOnce == [][KeepsNoDuplicates /\ PreparesOnce(AbsentOrZeroAsOne)]_vars

\* An alchemical entry loaded with a formula of quantity 0, after that formula
\* was prepared again: its quantity is 2.
C33_Witness ==
    /\ craftingEntry.isAlchemical
    /\ calls = 1 /\ lastCall.op = "prepareFormula" /\ lastCall.itemUUID = "fire"
    /\ Len(preparedFormulas) = 2
    /\ preparedFormulas[1].uuid = "tonic"
    /\ preparedFormulas[2].uuid = "fire" /\ preparedFormulas[2].quantity = Some(2)

(***************************************************************************)
(* C32: no prepared formula has a quantity below 1                         *)
(***************************************************************************)

\* A quantity that is absent or at least 1.
AbsentOrPositive(quantity) == ~quantity.defined \/ quantity.n >= 1

\* Every formula of a list, in memory or persisted, has such a quantity.
QuantitiesKept(formulas) ==
    \A i \in 1 .. Len(formulas) : AbsentOrPositive(formulas[i].quantity)

\* A decrease that would bring the quantity to 0 or below, past its guard.
DecreaseToNothing ==
    /\ calls' = calls + 1 /\ lastCall'.op = "decreaseFormulaQuantity" /\ lastCall'.ok
    /\ AbsentAsOne(preparedFormulas[lastCall'.index].quantity) - 1 <= 0

\* C32: starting from an entry in which every prepared formula's quantity is
\* absent or at least 1 (here: a new entry, with nothing prepared), after any
\* sequence of prepare, unprepare, increase, decrease and set-quantity
\* operations every prepared formula still has a quantity that is absent or at
\* least 1, in memory and in every persisted array; an operation that would
\* bring a quantity to 0 or below removes that formula from the list instead.
C32_Original ==
    /\ [](/\ QuantitiesKept(preparedFormulas)
          /\ QuantitiesKept(actorPreparedFormulas)
          /\ \A k \in 1 .. Len(pendingUpdates) : QuantitiesKept(pendingUpdates[k]))
    /\ [][DecreaseToNothing =>
            preparedFormulas' =
                SubSeq(preparedFormulas, 1, lastCall'.index - 1)
                \o SubSeq(preparedFormulas, lastCall'.index + 1, Len(preparedFormulas))]_vars

\* The same for one step of any entry: the quantities of a list that has them
\* absent or at least 1 before an operation are so after it, and in the update.
C32_StepOfOwnObjects ==
    [][ /\ calls' = calls + 1
        /\ QuantitiesKept(preparedFormulas)
        /\ \A i \in 1 .. Len(preparedFormulas') : preparedFormulas'[i].ref = OwnObject
        => /\ QuantitiesKept(preparedFormulas')
           /\ Len(pendingUpdates') > Len(pendingUpdates)
                => QuantitiesKept(pendingUpdates'[Len(pendingUpdates')]) ]_vars

(***************************************************************************)
(* C34: a toggle flips one flag of one position                            *)
(***************************************************************************)

ToggleOps == {"toggleFormulaExpended", "toggleSignatureItem"}

\* A toggle that passes its guard.
ToggleStep == calls' = calls + 1 /\ lastCall'.op \in ToggleOps /\ lastCall'.ok

\* The toggle flips its flag at the position it names and leaves the other
\* fields of that position alone.
FlipsNamedPosition ==
    LET before == preparedFormulas[lastCall'.index]
        after == preparedFormulas'[lastCall'.index]
    IN  /\ after.uuid = before.uuid /\ after.quantity = before.quantity
        /\ IF lastCall'.op = "toggleFormulaExpended"
           THEN /\ (after.expended = "true") # (before.expended = "true")
                /\ after.isSignatureItem = before.isSignatureItem
           ELSE /\ (after.isSignatureItem = "true") # (before.isSignatureItem = "true")
                /\ after.expended = before.expended

\* Every other position keeps its quantity and its flags.
LeavesOtherPositions ==
    /\ Len(preparedFormulas') = Len(preparedFormulas)
    /\ \A j \in 1 .. Len(preparedFormulas) :
         j # lastCall'.index =>
            /\ preparedFormulas'[j].uuid = preparedFormulas[j].uuid
            /\ preparedFormulas'[j].quantity = preparedFormulas[j].quantity
            /\ preparedFormulas'[j].expended = preparedFormulas[j].expended
            /\ preparedFormulas'[j].isSignatureItem = preparedFormulas[j].isSignatureItem

\* The second of two equal toggles in a row, every call so far having issued an
\* update that is still pending: the update before the last is the list as it
\* was before the first of the two.
SecondToggle ==
    /\ ToggleStep
    /\ lastCall.op = lastCall'.op /\ lastCall.ok
    /\ lastCall.index = lastCall'.index /\ lastCall.itemUUID = lastCall'.itemUUID
    /\ calls >= 2 /\ Len(pendingUpdates) = calls

RestoresList ==
    [ i \in 1 .. Len(preparedFormulas') |->
        [ itemUUID |-> preparedFormulas'[i].uuid, quantity |-> preparedFormulas'[i].quantity,
          expended |-> preparedFormulas'[i].expended,
          isSignatureItem |-> preparedFormulas'[i].isSignatureItem ] ]
    = pendingUpdates[Len(pendingUpdates) - 1]

\* The frame of a toggle alone.
C34_Frame == [][ToggleStep => FlipsNamedPosition /\ LeavesOtherPositions]_vars

\* The double toggle alone.
C34_Twice == [][SecondToggle => RestoresList]_vars

\* C34: toggleFormulaExpended and toggleSignatureItem flip the flag of the
\* prepared formula at the given index only: the quantity, expended and signature
\* flags of every other position of the prepared list are unchanged, also when
\* the same formula has been prepared more than once in a non-alchemical entry;
\* applying the same toggle twice restores the original list.
C34_Original ==
    [][ /\ ToggleStep => FlipsNamedPosition /\ LeavesOtherPositions
        /\ SecondToggle => RestoresList ]_vars

====
